---- MODULE Spec2Model ----
(***************************************************************************)
(* A model of the geometric classification, template matching and mesh     *)
(* extrusion pipeline of Handgesture_Blueprint_Prototype:                   *)
(*   converters/template_matcher.py   TemplateMatcher                       *)
(*   converters/shape_classifier.py   ShapeClassifier                       *)
(*   converters/mesh_generator.py     MeshGenerator                         *)
(*   utils/geometry.py                normalize_coordinates                 *)
(*                                                                          *)
(* Numbers.  Python floats are modelled by exact rationals:                 *)
(*   - an IoU is the pair <<intersection, union>> and is compared with a    *)
(*     threshold given in tenths by cross-multiplication;                   *)
(*   - a confidence is an integer number of tenths;                         *)
(*   - a normalised coordinate is an integer number of halves (the only     *)
(*     division normalize_coordinates performs is the "/ 2" of the centre). *)
(* On the small integers used here every float operation of the source is   *)
(* exact or correctly rounded far from the thresholds, so the comparisons   *)
(* agree with the ones the program makes.                                   *)
(***************************************************************************)
EXTENDS Integers, Sequences, FiniteSets, TLC

VARIABLES
    \* ---- TemplateMatcher._non_max_suppression -------------------------
    matches,            \* the candidate list handed to _non_max_suppression
    overlap_threshold,  \* its overlap_threshold argument, in tenths
    kept,               \* the list it returned
    keptIdx,            \* which candidate objects those are (positions in matches)
    nmsPc,              \* "call" before the call, "done" after it
    \* ---- TemplateMatcher._calculate_iou -------------------------------
    box1, box2,         \* the two boxes [x, y, w, h]
    iou12, iou21,       \* _calculate_iou(box1, box2) and _calculate_iou(box2, box1)
    iou11,              \* _calculate_iou(box1, box1)
    iouPc,
    \* ---- ShapeClassifier._classify_contour -----------------------------
    contour,            \* the contour's descriptors, as cv2 computes them
    category,           \* the category _classify_contour returned
    clsPc,
    \* ---- ShapeClassifier (one instance, callers 1 and 2) ---------------
    element_types,      \* self.element_types: category -> list of elements
    clfPc,              \* per caller: "idle", "loop" or "returned"
    clfImage,           \* per caller: the image_path of its current call
    clfI,               \* per caller: contours of the for loop already visited
    clfRet,             \* per caller: what its last call returned: "none",
                        \*   "error" ({'error': ...}) or "element_types" (the
                        \*   instance's dict itself, not a copy)
    clfAdded,           \* per caller: elements appended so far by its current call
    clfCalls,           \* calls started so far
    \* ---- MeshGenerator (one instance) ---------------------------------
    blueprint_walls,    \* self.blueprint_data.get('walls', [])
    wall_height,        \* self.wall_height, in halves
    vertices,           \* self.vertices
    faces,              \* self.faces
    mesh,               \* metadata of the dict the last generate() returned
                        \*   (its 'vertices' and 'faces' are self.vertices and
                        \*   self.faces themselves); NoMesh before any call
    extruded,           \* the walls _extrude_walls has processed, in order
    genCalls,           \* generate() calls made
    wall_thickness,     \* self.wall_thickness, in hundredths
    \* ---- a second MeshGenerator built from the same blueprint data and
    \*      wall_height, with its own wall_thickness -----------------------
    twinThickness,      \* its self.wall_thickness, in hundredths
    twinVertices,       \* its self.vertices
    twinFaces,          \* its self.faces
    twinMesh,           \* metadata of the dict its last generate() returned
    twinCalls,          \* its generate() calls made
    \* ---- normalize_coordinates on its own ------------------------------
    normWalls,          \* the walls argument
    normScale,          \* the scale argument
    normOut,            \* the list returned
    normPc,             \* "call" before the call, "returned" after it
    \* ---- filter_by_regions ---------------------------------------------
    filtData,           \* the blueprint_data argument
    filtRegions,        \* the regions argument, numbers in quarters
    filtOut,            \* the data returned
    filtSame,           \* the returned object is the blueprint_data argument
    filtPc,             \* "call", "returned", or the error raised
    \* ---- match_dxf_walls_to_detections ---------------------------------
    dxf_walls,          \* the dxf_walls argument
    ml_detections,      \* the ml_detections argument, numbers in hundredths
    matched_walls,      \* the list returned
    matchSame,          \* the returned object is the dxf_walls argument
    matchPc,            \* "call", "returned", or the error raised
    \* ---- analyze_region_elements ---------------------------------------
    classification_data, \* the classification_data argument, numbers in tenths
    region,             \* the region argument, numbers in tenths
    analysis,           \* the dict returned
    anaPc,              \* "call" before the call, "returned" after it
    \* ---- find_matches, called by several callers on one TemplateMatcher -
    templates,          \* self.templates
    fmPc,               \* per call: "idle", "loop", "returned" or the error raised
    fmArgs,             \* per call: image_path, element_type, threshold
    fmRead,             \* per call: cv2.imread(image_path) has been called
    fmScale,            \* per call: position in scales of the next iteration
    fmTried,            \* per call: the scales whose iteration has run, in order
    fmMatches,          \* per call: the local list matches
    fmRet,              \* per call: the list returned
    \* ---- process_regions --------------------------------------------------
    prPc,               \* the step to run next, "returned", or the error caught
    prLoaded,           \* the walls of blueprint_data as loaded from the file
    prData,             \* blueprint_data
    prDetections,       \* ml_detections
    prRegions,          \* selected_regions
    prTrace,            \* the pipeline steps that have run, in order
    prReconciled,       \* filtered_walls, what the reconciler returned
    prFilterIn,         \* the data the region filter was called with
    prFiltered,         \* filtered_data
    prNormalized,       \* the walls normalize_coordinates returned
    prMesh              \* mesh_data: its vertices, faces and metadata

nmsVars == <<matches, overlap_threshold, kept, keptIdx, nmsPc>>
iouVars == <<box1, box2, iou12, iou21, iou11, iouPc>>
clsVars == <<contour, category, clsPc>>
clfVars == <<element_types, clfPc, clfImage, clfI, clfRet, clfAdded, clfCalls>>
meshVars == <<blueprint_walls, wall_height, vertices, faces, mesh, extruded, genCalls,
              wall_thickness, twinThickness, twinVertices, twinFaces, twinMesh, twinCalls>>
normVars == <<normWalls, normScale, normOut, normPc>>
filtVars == <<filtData, filtRegions, filtOut, filtSame, filtPc>>
matchVars == <<dxf_walls, ml_detections, matched_walls, matchSame, matchPc>>
anaVars == <<classification_data, region, analysis, anaPc>>
fmVars == <<templates, fmPc, fmArgs, fmRead, fmScale, fmTried, fmMatches, fmRet>>
prVars == <<prPc, prLoaded, prData, prDetections, prRegions, prTrace, prReconciled,
           prFilterIn, prFiltered, prNormalized, prMesh>>
extraVars == <<anaVars, fmVars, prVars>>
restVars == <<normVars, filtVars, matchVars, extraVars>>
vars == <<nmsVars, iouVars, clsVars, clfVars, meshVars, restVars>>
notNmsVars == <<iouVars, clsVars, clfVars, meshVars, restVars>>
notIouVars == <<nmsVars, clsVars, clfVars, meshVars, restVars>>
notClsVars == <<nmsVars, iouVars, clfVars, meshVars, restVars>>
notClfVars == <<nmsVars, iouVars, clsVars, meshVars, restVars>>
notMeshVars == <<nmsVars, iouVars, clsVars, clfVars, restVars>>
notNormVars == <<nmsVars, iouVars, clsVars, clfVars, meshVars, filtVars, matchVars, extraVars>>
notFiltVars == <<nmsVars, iouVars, clsVars, clfVars, meshVars, normVars, matchVars, extraVars>>
notMatchVars == <<nmsVars, iouVars, clsVars, clfVars, meshVars, normVars, filtVars, extraVars>>
notAnaVars == <<nmsVars, iouVars, clsVars, clfVars, meshVars, normVars, filtVars, matchVars,
                fmVars, prVars>>
notFmVars == <<nmsVars, iouVars, clsVars, clfVars, meshVars, normVars, filtVars, matchVars,
               anaVars, prVars>>
notPrVars == <<nmsVars, iouVars, clsVars, clfVars, meshVars, normVars, filtVars, matchVars,
               anaVars, fmVars>>

(***************************************************************************)
(* Bounds of the model.                                                    *)
(***************************************************************************)
MaxMatches == 3     \* longest candidate list
MaxPos == 2         \* largest x (and y) of a box position
MaxSize == 2        \* largest width/height of a box given to _calculate_iou
MaxCalls == 3       \* classify_from_image calls on the one ShapeClassifier
MaxWalls == 2       \* longest wall list of the blueprint data
MaxGenerate == 2    \* generate() calls on the one MeshGenerator

Max(a, b) == IF a >= b THEN a ELSE b
Min(a, b) == IF a <= b THEN a ELSE b

SeqsUpTo(S, n) == UNION {[1..k -> S] : k \in 0..n}

(***************************************************************************)
(* TemplateMatcher._calculate_iou                                          *)
(***************************************************************************)
\* A plausible slip: the union is computed from area1 twice.
CalculateIoU_Area1Twice(b1, b2) ==
    LET x1 == b1[1]  y1 == b1[2]  w1 == b1[3]  h1 == b1[4]
        x2 == b2[1]  y2 == b2[2]  w2 == b2[3]  h2 == b2[4]
        xi1 == Max(x1, x2)
        yi1 == Max(y1, y2)
        xi2 == Min(x1 + w1, x2 + w2)
        yi2 == Min(y1 + h1, y2 + h2)
        intersection == Max(0, xi2 - xi1) * Max(0, yi2 - yi1)
        area1 == w1 * h1
        union == area1 + area1 - intersection
    IN  IF union > 0 THEN <<intersection, union>> ELSE <<0, 1>>

\* The value intersection / union as the pair <<intersection, union>>;
\* "else 0" is the pair <<0, 1>>.
CalculateIoU(b1, b2) ==
    LET x1 == b1[1]  y1 == b1[2]  w1 == b1[3]  h1 == b1[4]
        x2 == b2[1]  y2 == b2[2]  w2 == b2[3]  h2 == b2[4]
        xi1 == Max(x1, x2)
        yi1 == Max(y1, y2)
        xi2 == Min(x1 + w1, x2 + w2)
        yi2 == Min(y1 + h1, y2 + h2)
        intersection == Max(0, xi2 - xi1) * Max(0, yi2 - yi1)
        area1 == w1 * h1
        area2 == w2 * h2
        union == area1 + area2 - intersection
    IN  IF union > 0 THEN <<intersection, union>> ELSE <<0, 1>>

\* Equality of two IoU values (pairs with positive second component).
IoUEq(a, b) == a[1] * b[2] = b[1] * a[2]

\* A plausible slip: ">=" for ">".
IoUAbove_AtLeast(iou, thr) == 10 * iou[1] >= thr * iou[2]

\* "iou > overlap_threshold", the threshold in tenths.
IoUAbove(iou, thr) == 10 * iou[1] > thr * iou[2]

(***************************************************************************)
(* TemplateMatcher._non_max_suppression                                    *)
(***************************************************************************)
BoxOf(m) == <<m.position[1], m.position[2], m.size[1], m.size[2]>>

\* A plausible slip: an order that is descending but not stable (the later of
\* two equal confidences first), as sorted(...)[::-1] would give.
RECURSIVE SortByConfidence_Unstable(_, _)
SortByConfidence_Unstable(ms, remaining) ==
    IF remaining = {} THEN <<>>
    ELSE LET first == CHOOSE i \in remaining : \A j \in remaining :
                          \/ ms[i].confidence > ms[j].confidence
                          \/ ms[i].confidence = ms[j].confidence /\ i >= j
         IN  <<first>> \o SortByConfidence_Unstable(ms, remaining \ {first})

\* sorted(matches, key=confidence, reverse=True): Python's sort is stable, and
\* reverse=True keeps the original order of elements with equal keys.  The
\* result is the sequence of positions of matches in sorted order.
RECURSIVE SortByConfidence(_, _)
SortByConfidence(ms, remaining) ==
    IF remaining = {} THEN <<>>
    ELSE LET first == CHOOSE i \in remaining : \A j \in remaining :
                          \/ ms[i].confidence > ms[j].confidence
                          \/ ms[i].confidence = ms[j].confidence /\ i <= j
         IN  <<first>> \o SortByConfidence(ms, remaining \ {first})

\* A plausible slip: the candidate is compared with the last kept match only.
ShouldKeep_LastOnly(ms, i, keptSoFar, thr) ==
    \/ keptSoFar = <<>>
    \/ ~IoUAbove(CalculateIoU(BoxOf(ms[i]), BoxOf(ms[keptSoFar[Len(keptSoFar)]])), thr)

\* A plausible slip: one kept match that does not overlap is enough to keep.
ShouldKeep_AnyClear(ms, i, keptSoFar, thr) ==
    \/ keptSoFar = <<>>
    \/ \E k \in 1..Len(keptSoFar) :
           ~IoUAbove(CalculateIoU(BoxOf(ms[i]), BoxOf(ms[keptSoFar[k]])), thr)

\* The inner loop: should_keep stays True iff no kept match has iou > threshold.
ShouldKeep(ms, i, keptSoFar, thr) ==
    \A k \in 1..Len(keptSoFar) :
        ~IoUAbove(CalculateIoU(BoxOf(ms[i]), BoxOf(ms[keptSoFar[k]])), thr)

\* The outer loop over the sorted candidates, from position n of order on.
RECURSIVE Suppress(_, _, _, _, _)
Suppress(ms, order, n, keptSoFar, thr) ==
    IF n > Len(order) THEN keptSoFar
    ELSE Suppress(ms, order, n + 1,
                  IF ShouldKeep(ms, order[n], keptSoFar, thr)
                  THEN Append(keptSoFar, order[n]) ELSE keptSoFar,
                  thr)

\* _non_max_suppression, as the positions (in matches) of the kept candidates.
NonMaxSuppressionIdx(ms, thr) ==
    IF Len(ms) = 0 THEN <<>>
    ELSE Suppress(ms, SortByConfidence(ms, 1..Len(ms)), 1, <<>>, thr)

\* The candidates drawn for a call: boxes on one row, two confidences.
Confidences == {7, 9}
Thresholds == {3, 5}
CandidateSizes == {<<1, 1>>, <<2, 1>>}
Candidates ==
    [position : (0..MaxPos) \X {0}, size : CandidateSizes, confidence : Confidences]

NMSIdle ==
    /\ matches = <<>>
    /\ overlap_threshold = 3
    /\ kept = <<>>
    /\ keptIdx = <<>>
    /\ nmsPc = "idle"

NMSInit ==
    /\ matches \in SeqsUpTo(Candidates, MaxMatches)
    /\ overlap_threshold \in Thresholds
    /\ kept = <<>>
    /\ keptIdx = <<>>
    /\ nmsPc = "call"

NonMaxSuppression ==
    /\ nmsPc = "call"
    /\ LET idx == NonMaxSuppressionIdx(matches, overlap_threshold)
       IN  /\ keptIdx' = idx
           /\ kept' = [k \in 1..Len(idx) |-> matches[idx[k]]]
    /\ nmsPc' = "done"
    /\ UNCHANGED <<matches, overlap_threshold>>

(***************************************************************************)
(* _calculate_iou on its own                                               *)
(***************************************************************************)
Boxes == (0..MaxPos) \X (0..MaxPos) \X (0..MaxSize) \X (0..MaxSize)

IoUIdle ==
    /\ box1 = <<0, 0, 0, 0>>
    /\ box2 = <<0, 0, 0, 0>>
    /\ iou12 = <<0, 1>>
    /\ iou21 = <<0, 1>>
    /\ iou11 = <<0, 1>>
    /\ iouPc = "idle"

IoUInit ==
    /\ box1 \in Boxes
    /\ box2 \in Boxes
    /\ iou12 = <<0, 1>>
    /\ iou21 = <<0, 1>>
    /\ iou11 = <<0, 1>>
    /\ iouPc = "call"

CalculateIoUCall ==
    /\ iouPc = "call"
    /\ iou12' = CalculateIoU(box1, box2)
    /\ iou21' = CalculateIoU(box2, box1)
    /\ iou11' = CalculateIoU(box1, box1)
    /\ iouPc' = "done"
    /\ UNCHANGED <<box1, box2>>

(***************************************************************************)
(* ShapeClassifier._classify_contour                                       *)
(*                                                                          *)
(* A contour is known to the classifier through five numbers cv2 computes   *)
(* from it: area (contourArea), perimeter (arcLength), the bounding box     *)
(* w x h (boundingRect) and num_vertices (len of approxPolyDP).             *)
(***************************************************************************)
PiNum == 355        \* np.pi as the rational 355/113
PiDen == 113

\* circularity = 4 * pi * (area / (perimeter * perimeter)), perimeter # 0.
Circularity(c) == <<4 * PiNum * c.area, PiDen * c.perimeter * c.perimeter>>

\* aspect_ratio = float(w) / h if h > 0 else 0
AspectRatio(c) == IF c.h > 0 THEN <<c.w, c.h>> ELSE <<0, 1>>

\* r > n/d and r < n/d for a rational r = <<num, den>> with den > 0, d > 0.
RatGT(r, n, d) == r[1] * d > n * r[2]
RatLT(r, n, d) == r[1] * d < n * r[2]

\* A plausible slip: "200 < area <= 3000" in the window rule.
ClassifyContour_WindowInclusive(c) ==
    IF c.perimeter = 0 THEN "unknown"
    ELSE LET circularity == Circularity(c)
             aspect_ratio == AspectRatio(c)
         IN  IF RatGT(circularity, 7, 10) /\ c.area < 5000 THEN "door"
             ELSE IF /\ c.num_vertices = 4 /\ 200 < c.area /\ c.area <= 3000
                     /\ RatGT(aspect_ratio, 3, 10) /\ RatLT(aspect_ratio, 3, 1)
                  THEN "window"
             ELSE IF /\ c.num_vertices = 4
                     /\ (RatGT(aspect_ratio, 5, 1) \/ RatLT(aspect_ratio, 2, 10))
                     /\ c.area > 1000
                  THEN "wall"
             ELSE IF c.num_vertices > 6 /\ c.area > 1000 THEN "furniture"
             ELSE IF RatGT(circularity, 8, 10) /\ c.area > 500 THEN "furniture"
             ELSE "unknown"

\* A plausible slip: "and" for "or" in the wall rule.
ClassifyContour_WallAnd(c) ==
    IF c.perimeter = 0 THEN "unknown"
    ELSE LET circularity == Circularity(c)
             aspect_ratio == AspectRatio(c)
         IN  IF RatGT(circularity, 7, 10) /\ c.area < 5000 THEN "door"
             ELSE IF /\ c.num_vertices = 4 /\ 200 < c.area /\ c.area < 3000
                     /\ RatGT(aspect_ratio, 3, 10) /\ RatLT(aspect_ratio, 3, 1)
                  THEN "window"
             ELSE IF /\ c.num_vertices = 4
                     /\ (RatGT(aspect_ratio, 5, 1) /\ RatLT(aspect_ratio, 2, 10))
                     /\ c.area > 1000
                  THEN "wall"
             ELSE IF c.num_vertices > 6 /\ c.area > 1000 THEN "furniture"
             ELSE IF RatGT(circularity, 8, 10) /\ c.area > 500 THEN "furniture"
             ELSE "unknown"

\* A plausible slip: the two furniture rules placed before the door rule.
ClassifyContour_FurnitureFirst(c) ==
    IF c.perimeter = 0 THEN "unknown"
    ELSE LET circularity == Circularity(c)
             aspect_ratio == AspectRatio(c)
         IN  IF c.num_vertices > 6 /\ c.area > 1000 THEN "furniture"
             ELSE IF RatGT(circularity, 8, 10) /\ c.area > 500 THEN "furniture"
             ELSE IF RatGT(circularity, 7, 10) /\ c.area < 5000 THEN "door"
             ELSE IF /\ c.num_vertices = 4 /\ 200 < c.area /\ c.area < 3000
                     /\ RatGT(aspect_ratio, 3, 10) /\ RatLT(aspect_ratio, 3, 1)
                  THEN "window"
             ELSE IF /\ c.num_vertices = 4
                     /\ (RatGT(aspect_ratio, 5, 1) \/ RatLT(aspect_ratio, 2, 10))
                     /\ c.area > 1000
                  THEN "wall"
             ELSE "unknown"

\* _classify_contour: the early returns of the source, in its order.
ClassifyContour(c) ==
    IF c.perimeter = 0 THEN "unknown"
    ELSE LET circularity == Circularity(c)
             aspect_ratio == AspectRatio(c)
         IN  IF RatGT(circularity, 7, 10) /\ c.area < 5000 THEN "door"
             ELSE IF /\ c.num_vertices = 4 /\ 200 < c.area /\ c.area < 3000
                     /\ RatGT(aspect_ratio, 3, 10) /\ RatLT(aspect_ratio, 3, 1)
                  THEN "window"
             ELSE IF /\ c.num_vertices = 4
                     /\ (RatGT(aspect_ratio, 5, 1) \/ RatLT(aspect_ratio, 2, 10))
                     /\ c.area > 1000
                  THEN "wall"
             ELSE IF c.num_vertices > 6 /\ c.area > 1000 THEN "furniture"
             ELSE IF RatGT(circularity, 8, 10) /\ c.area > 500 THEN "furniture"
             ELSE "unknown"

\* The descriptor values drawn: every threshold of the rules with a value on
\* it and on either side.
Areas == {0, 99, 100, 200, 201, 500, 501, 1000, 1001, 1500, 2999, 3000, 4999, 5000, 5001}
Perimeters == {0, 36, 40, 50, 52, 58, 70, 80, 90, 100, 115, 130, 140, 160, 170,
               200, 225, 260, 290, 300, 400, 1000}
BoundingBoxes == {<<1, 1>>, <<12, 12>>, <<25, 25>>, <<50, 50>>,
                  <<160, 20>>, <<320, 40>>, <<20, 160>>, <<100, 20>>, <<20, 100>>,
                  <<80, 20>>, <<60, 20>>, <<30, 100>>, <<20, 80>>}
VertexCounts == {1, 3, 4, 6, 7}

\* What cv2 can return for one closed contour.  boundingRect counts pixels, so
\* the contour spans W = w - 1 by H = h - 1; a closed curve is at least twice
\* as long as it is wide or high, encloses (counted with winding number) at
\* most min(W, H) * perimeter / 2, and obeys the isoperimetric inequality
\* 4 * pi * area <= perimeter^2.
Realisable(c) ==
    /\ c.perimeter >= 2 * Max(c.w - 1, c.h - 1)
    /\ 2 * c.area <= Min(c.w - 1, c.h - 1) * c.perimeter
    /\ 4 * PiNum * c.area <= PiDen * c.perimeter * c.perimeter
    /\ c.perimeter = 0 <=> (c.w = 1 /\ c.h = 1)

Contours ==
    {c \in {[area |-> a, perimeter |-> p, w |-> b[1], h |-> b[2], num_vertices |-> n] :
               a \in Areas, p \in Perimeters, b \in BoundingBoxes, n \in VertexCounts} :
        Realisable(c)}

NoContour == [area |-> 0, perimeter |-> 0, w |-> 1, h |-> 1, num_vertices |-> 1]

ClsIdle ==
    /\ contour = NoContour
    /\ category = "none"
    /\ clsPc = "idle"

ClsInit ==
    /\ contour \in Contours
    /\ category = "none"
    /\ clsPc = "call"

ClassifyContourCall ==
    /\ clsPc = "call"
    /\ category' = ClassifyContour(contour)
    /\ clsPc' = "done"
    /\ UNCHANGED contour

(***************************************************************************)
(* ShapeClassifier.__init__ and classify_from_image                        *)
(*                                                                          *)
(* cv2.imread / Canny / findContours are external: an image is the list of  *)
(* contours they produce for it, or unreadable (imread returns None).  A    *)
(* contour carries its point list (pts), the corner (x, y) of its bounding  *)
(* box and the descriptors _classify_contour reads.                         *)
(***************************************************************************)
Categories == {"wall", "door", "window", "furniture", "unknown"}
Callers == {1, 2}
ImageNames == {"a.png", "b.png", "c.png", "d.png"}

Cnt(pts, x, y, w, h, area, perimeter, n) ==
    [pts |-> pts, x |-> x, y |-> y, w |-> w, h |-> h,
     area |-> area, perimeter |-> perimeter, num_vertices |-> n]

\* imread(image_path) is not None
Readable(name) == name # "d.png"

\* The contours findContours returns for each readable image.
ImageContours(name) ==
    CASE name = "a.png" -> << Cnt("a1", 10, 10, 160, 20, 1500, 400, 4),
                              Cnt("a2", 30, 40, 12, 12, 99, 36, 4),
                              Cnt("a3", 60, 40, 12, 12, 100, 36, 7) >>
      [] name = "b.png" -> << Cnt("b1", 5, 5, 50, 50, 1500, 170, 4),
                              Cnt("b2", 100, 5, 81, 81, 5000, 260, 6) >>
      [] name = "c.png" -> << Cnt("c1", 7, 9, 25, 25, 200, 70, 3) >>
      [] OTHER -> << >>

\* A plausible slip: "area <= 100" for "area < 100".
IsNoise_Inclusive(c) == c.area <= 100

\* "if area < 100: continue"
IsNoise(c) == c.area < 100

\* The element record built for a contour; "//" is floor division.
ElementOf(c) ==
    [bbox |-> <<c.x, c.y, c.w, c.h>>,
     center |-> <<c.x + (c.w \div 2), c.y + (c.h \div 2)>>,
     area |-> c.area,
     contour |-> c.pts]

TotalElements(et) ==
    Len(et["wall"]) + Len(et["door"]) + Len(et["window"])
        + Len(et["furniture"]) + Len(et["unknown"])

\* __init__: five empty lists; no call made yet.
ClfInit ==
    /\ element_types = [cat \in Categories |-> << >>]
    /\ clfPc = [t \in Callers |-> "idle"]
    /\ clfImage = [t \in Callers |-> "none"]
    /\ clfI = [t \in Callers |-> 0]
    /\ clfRet = [t \in Callers |-> "none"]
    /\ clfAdded = [t \in Callers |-> 0]
    /\ clfCalls = 0

ClfIdle ==
    /\ element_types = [cat \in Categories |-> << >>]
    /\ clfPc = [t \in Callers |-> "off"]
    /\ clfImage = [t \in Callers |-> "none"]
    /\ clfI = [t \in Callers |-> 0]
    /\ clfRet = [t \in Callers |-> "none"]
    /\ clfAdded = [t \in Callers |-> 0]
    /\ clfCalls = 0

\* classify_from_image(image_path) up to the for loop, image readable.
ClassifyStart(t, name) ==
    /\ clfPc[t] \in {"idle", "returned"}
    /\ clfCalls < MaxCalls
    /\ Readable(name)
    /\ clfPc' = [clfPc EXCEPT ![t] = "loop"]
    /\ clfImage' = [clfImage EXCEPT ![t] = name]
    /\ clfI' = [clfI EXCEPT ![t] = 0]
    /\ clfRet' = [clfRet EXCEPT ![t] = "none"]
    /\ clfAdded' = [clfAdded EXCEPT ![t] = 0]
    /\ clfCalls' = clfCalls + 1
    /\ UNCHANGED <<element_types, notClfVars>>

\* classify_from_image(image_path) when imread returns None.
ClassifyUnreadable(t, name) ==
    /\ clfPc[t] \in {"idle", "returned"}
    /\ clfCalls < MaxCalls
    /\ ~Readable(name)
    /\ clfPc' = [clfPc EXCEPT ![t] = "returned"]
    /\ clfImage' = [clfImage EXCEPT ![t] = name]
    /\ clfI' = [clfI EXCEPT ![t] = 0]
    /\ clfRet' = [clfRet EXCEPT ![t] = "error"]
    /\ clfAdded' = [clfAdded EXCEPT ![t] = 0]
    /\ clfCalls' = clfCalls + 1
    /\ UNCHANGED <<element_types, notClfVars>>

\* One iteration of "for i, contour in enumerate(contours)".
ClassifyStep(t) ==
    /\ clfPc[t] = "loop"
    /\ clfI[t] < Len(ImageContours(clfImage[t]))
    /\ LET c == ImageContours(clfImage[t])[clfI[t] + 1]
           classification == ClassifyContour(c)
       IN  /\ element_types' =
                 IF IsNoise(c) THEN element_types
                 ELSE [element_types EXCEPT
                          ![classification] = Append(@, ElementOf(c))]
           /\ clfAdded' = [clfAdded EXCEPT
                  ![t] = @ + TotalElements(element_types') - TotalElements(element_types)]
    /\ clfI' = [clfI EXCEPT ![t] = @ + 1]
    /\ UNCHANGED <<clfPc, clfImage, clfRet, clfCalls, notClfVars>>

\* "return self.element_types" after the loop.
ClassifyReturn(t) ==
    /\ clfPc[t] = "loop"
    /\ clfI[t] = Len(ImageContours(clfImage[t]))
    /\ clfPc' = [clfPc EXCEPT ![t] = "returned"]
    /\ clfRet' = [clfRet EXCEPT ![t] = "element_types"]
    /\ UNCHANGED <<element_types, clfImage, clfI, clfAdded, clfCalls, notClfVars>>

(***************************************************************************)
(* utils/geometry.py normalize_coordinates and MeshGenerator                *)
(*                                                                          *)
(* Input coordinates are whole numbers.  Every number normalize_coordinates *)
(* returns, and every number of the mesh, is held as a count of halves:     *)
(* (coord - (min + max) / 2) * scale  is  (2 * coord - (min + max)) * scale *)
(* halves.                                                                  *)
(***************************************************************************)
Halves(n) == 2 * n

RECURSIVE SeqMin(_)
SeqMin(q) == IF Len(q) = 1 THEN q[1] ELSE Min(q[1], SeqMin(Tail(q)))

RECURSIVE SeqMax(_)
SeqMax(q) == IF Len(q) = 1 THEN q[1] ELSE Max(q[1], SeqMax(Tail(q)))

\* Python floats round every result to the nearest value with a fixed number
\* of significant bits, ties to the even mantissa.  The model keeps that rule
\* with MantissaBits bits (a double has 53), so that sums and differences of
\* small coordinates are exact and those of larger ones are rounded.
MantissaBits == 5

\* The spacing of the representable values around a >= 0.
RECURSIVE Ulp(_)
Ulp(a) == IF a < 2 ^ MantissaBits THEN 1 ELSE 2 * Ulp(a \div 2)

\* The float nearest to the exact result n.
FlRound(n) ==
    LET a == IF n < 0 THEN -n ELSE n
        q == Ulp(a)
        lo == (a \div q) * q
        r == a - lo
        up == IF 2 * r > q \/ (2 * r = q /\ (a \div q) % 2 = 1) THEN lo + q ELSE lo
    IN  IF n < 0 THEN -up ELSE up

\* all_x / all_y: start and end coordinate of every wall, in wall order.
RECURSIVE AllCoords(_, _)
AllCoords(walls, axis) ==
    IF walls = << >> THEN << >>
    ELSE <<walls[1].start[axis], walls[1].end[axis]>> \o AllCoords(Tail(walls), axis)

\* A plausible slip: the coordinates scaled but not centred.
NormalizeCoordinates_NoCentre(walls, scale) ==
    IF walls = << >> THEN << >>
    ELSE [k \in 1..Len(walls) |->
             [start |-> <<2 * walls[k].start[1] * scale, 2 * walls[k].start[2] * scale>>,
              end |-> <<2 * walls[k].end[1] * scale, 2 * walls[k].end[2] * scale>>,
              layer |-> walls[k].layer,
              type |-> walls[k].type]]

\* A plausible slip: the centre taken over the start points only.
NormalizeCoordinates_StartsOnly(walls, scale) ==
    IF walls = << >> THEN << >>
    ELSE LET all_x == [k \in 1..Len(walls) |-> walls[k].start[1]]
             all_y == [k \in 1..Len(walls) |-> walls[k].start[2]]
             twice_center_x == FlRound(SeqMin(all_x) + SeqMax(all_x))
             twice_center_y == FlRound(SeqMin(all_y) + SeqMax(all_y))
         IN  [k \in 1..Len(walls) |->
                 [start |-> <<FlRound(FlRound(2 * walls[k].start[1] - twice_center_x) * scale),
                              FlRound(FlRound(2 * walls[k].start[2] - twice_center_y) * scale)>>,
                  end |-> <<FlRound(FlRound(2 * walls[k].end[1] - twice_center_x) * scale),
                            FlRound(FlRound(2 * walls[k].end[2] - twice_center_y) * scale)>>,
                  layer |-> walls[k].layer,
                  type |-> walls[k].type]]

\* A plausible slip: min + max subtracted without halving it.
NormalizeCoordinates_CentreNotHalved(walls, scale) ==
    IF walls = << >> THEN << >>
    ELSE LET all_x == AllCoords(walls, 1)
             all_y == AllCoords(walls, 2)
             twice_center_x == 2 * FlRound(SeqMin(all_x) + SeqMax(all_x))
             twice_center_y == 2 * FlRound(SeqMin(all_y) + SeqMax(all_y))
         IN  [k \in 1..Len(walls) |->
                 [start |-> <<FlRound(FlRound(2 * walls[k].start[1] - twice_center_x) * scale),
                              FlRound(FlRound(2 * walls[k].start[2] - twice_center_y) * scale)>>,
                  end |-> <<FlRound(FlRound(2 * walls[k].end[1] - twice_center_x) * scale),
                            FlRound(FlRound(2 * walls[k].end[2] - twice_center_y) * scale)>>,
                  layer |-> walls[k].layer,
                  type |-> walls[k].type]]

\* normalize_coordinates(walls, scale); the result is in halves.  min + max
\* is rounded, halving it is exact, and so twice the centre is that rounded
\* sum; the difference and the product are rounded in turn.
NormalizeCoordinates(walls, scale) ==
    IF walls = << >> THEN << >>
    ELSE LET all_x == AllCoords(walls, 1)
             all_y == AllCoords(walls, 2)
             twice_center_x == FlRound(SeqMin(all_x) + SeqMax(all_x))
             twice_center_y == FlRound(SeqMin(all_y) + SeqMax(all_y))
         IN  [k \in 1..Len(walls) |->
                 [start |-> <<FlRound(FlRound(2 * walls[k].start[1] - twice_center_x) * scale),
                              FlRound(FlRound(2 * walls[k].start[2] - twice_center_y) * scale)>>,
                  end |-> <<FlRound(FlRound(2 * walls[k].end[1] - twice_center_x) * scale),
                            FlRound(FlRound(2 * walls[k].end[2] - twice_center_y) * scale)>>,
                  layer |-> walls[k].layer,
                  type |-> walls[k].type]]

\* A plausible slip: base_idx read after the four vertices were added.
ExtrudeWall_BaseAfterExtend(vs, fs, wall, height) ==
    LET v0 == <<wall.start[1], 0, wall.start[2]>>
        v1 == <<wall.end[1], 0, wall.end[2]>>
        v2 == <<wall.end[1], height, wall.end[2]>>
        v3 == <<wall.start[1], height, wall.start[2]>>
        base_idx == Len(vs) + 4
    IN  [vertices |-> vs \o <<v0, v1, v2, v3>>,
         faces |-> fs \o << <<base_idx, base_idx + 1, base_idx + 2>>,
                            <<base_idx, base_idx + 2, base_idx + 3>> >>]

\* A plausible slip: the two upper corners in the other order.
ExtrudeWall_TopSwapped(vs, fs, wall, height) ==
    LET v0 == <<wall.start[1], 0, wall.start[2]>>
        v1 == <<wall.end[1], 0, wall.end[2]>>
        v2 == <<wall.start[1], height, wall.start[2]>>
        v3 == <<wall.end[1], height, wall.end[2]>>
        base_idx == Len(vs)
    IN  [vertices |-> vs \o <<v0, v1, v2, v3>>,
         faces |-> fs \o << <<base_idx, base_idx + 1, base_idx + 2>>,
                            <<base_idx, base_idx + 2, base_idx + 3>> >>]

\* The body of the loop of _extrude_walls for one wall: the vertices and faces
\* after it.  Face indices are 0-based, as in the source.
ExtrudeWall(vs, fs, wall, height) ==
    LET v0 == <<wall.start[1], 0, wall.start[2]>>
        v1 == <<wall.end[1], 0, wall.end[2]>>
        v2 == <<wall.end[1], height, wall.end[2]>>
        v3 == <<wall.start[1], height, wall.start[2]>>
        base_idx == Len(vs)
    IN  [vertices |-> vs \o <<v0, v1, v2, v3>>,
         faces |-> fs \o << <<base_idx, base_idx + 1, base_idx + 2>>,
                            <<base_idx, base_idx + 2, base_idx + 3>> >>]

\* _extrude_walls(walls) on an instance whose buffers are vs and fs.
RECURSIVE ExtrudeWalls(_, _, _, _)
ExtrudeWalls(vs, fs, walls, height) ==
    IF walls = << >> THEN [vertices |-> vs, faces |-> fs]
    ELSE LET one == ExtrudeWall(vs, fs, walls[1], height)
         IN  ExtrudeWalls(one.vertices, one.faces, Tail(walls), height)

\* A variant in which wall_thickness enters the geometry: the panel is moved
\* sideways by the thickness.
GenerateMesh_Thick(self, vs, fs) ==
    LET centred == NormalizeCoordinates(self.blueprint_walls, 1)
        walls == [k \in 1..Len(centred) |->
                     [centred[k] EXCEPT !.start[2] = @ + self.wall_thickness,
                                        !.end[2] = @ + self.wall_thickness]]
        out == ExtrudeWalls(vs, fs, walls, self.wall_height)
    IN  [vertices |-> out.vertices,
         faces |-> out.faces,
         metadata |-> [wall_count |-> Len(walls), wall_height |-> self.wall_height],
         walls |-> walls]

\* generate() on an instance with fields self and buffers vs, fs: the buffers
\* after the call, the metadata of the returned dict, and the walls handed to
\* _extrude_walls.
GenerateMesh(self, vs, fs) ==
    LET walls == NormalizeCoordinates(self.blueprint_walls, 1)
        out == ExtrudeWalls(vs, fs, walls, self.wall_height)
    IN  [vertices |-> out.vertices,
         faces |-> out.faces,
         metadata |-> [wall_count |-> Len(walls), wall_height |-> self.wall_height],
         walls |-> walls]

\* The blueprint data drawn: walls between four points, on one layer.
Points == {<<0, 0>>, <<10, 0>>, <<10, 5>>, <<3, 4>>}
WallRecords == [start : Points, end : Points, layer : {"WALLS"}, type : {"wall"}]
Heights == {Halves(3)}
Thicknesses == {15, 30}

\* Stands for "generate() has not returned yet" (genCalls = 0).
NoMesh == [wall_count |-> 0, wall_height |-> 0]

\* MeshGenerator(blueprint_data, wall_height): empty buffers.
MeshInit ==
    /\ blueprint_walls \in SeqsUpTo(WallRecords, MaxWalls)
    /\ wall_height \in Heights
    /\ vertices = << >>
    /\ faces = << >>
    /\ mesh = NoMesh
    /\ extruded = << >>
    /\ genCalls = 0
    /\ wall_thickness = 15
    /\ twinThickness \in Thicknesses \ {wall_thickness}
    /\ twinVertices = << >>
    /\ twinFaces = << >>
    /\ twinMesh = NoMesh
    /\ twinCalls = 0

MeshIdle ==
    /\ blueprint_walls = << >>
    /\ wall_height = Halves(3)
    /\ vertices = << >>
    /\ faces = << >>
    /\ mesh = NoMesh
    /\ extruded = << >>
    /\ genCalls = 0
    /\ wall_thickness = 15
    /\ twinThickness = 15
    /\ twinVertices = << >>
    /\ twinFaces = << >>
    /\ twinMesh = NoMesh
    /\ twinCalls = 0

\* generate()
Generate ==
    /\ genCalls < MaxGenerate
    /\ LET self == [blueprint_walls |-> blueprint_walls, wall_height |-> wall_height,
                    wall_thickness |-> wall_thickness]
           out == GenerateMesh(self, vertices, faces)
       IN  /\ vertices' = out.vertices
           /\ faces' = out.faces
           /\ mesh' = out.metadata
           /\ extruded' = extruded \o out.walls
    /\ genCalls' = genCalls + 1
    /\ UNCHANGED <<blueprint_walls, wall_height, wall_thickness, twinThickness,
                   twinVertices, twinFaces, twinMesh, twinCalls, notMeshVars>>

\* generate() on the second instance, which is called after the first.
GenerateTwin ==
    /\ twinCalls < genCalls
    /\ LET self == [blueprint_walls |-> blueprint_walls, wall_height |-> wall_height,
                    wall_thickness |-> twinThickness]
           out == GenerateMesh(self, twinVertices, twinFaces)
       IN  /\ twinVertices' = out.vertices
           /\ twinFaces' = out.faces
           /\ twinMesh' = out.metadata
    /\ twinCalls' = twinCalls + 1
    /\ UNCHANGED <<blueprint_walls, wall_height, wall_thickness, twinThickness,
                   vertices, faces, mesh, extruded, genCalls, notMeshVars>>

(***************************************************************************)
(* normalize_coordinates on its own                                        *)
(***************************************************************************)
\* The end points drawn: those of the blueprints above, and two far enough
\* from the others for min + max to need rounding.
NormPoints == {<<0, 0>>, <<10, 5>>, <<3, 4>>, <<1, 32>>, <<32, 1>>}
NormWallRecords == [start : NormPoints, end : NormPoints, layer : {"WALLS"}, type : {"wall"}]
Scales == {1, 2, 3}

NormInit ==
    /\ normWalls \in SeqsUpTo(NormWallRecords, MaxWalls)
    /\ normScale \in Scales
    /\ normOut = << >>
    /\ normPc = "call"

NormIdle ==
    /\ normWalls = << >>
    /\ normScale = 1
    /\ normOut = << >>
    /\ normPc = "idle"

NormalizeCall ==
    /\ normPc = "call"
    /\ normOut' = NormalizeCoordinates(normWalls, normScale)
    /\ normPc' = "returned"
    /\ UNCHANGED <<normWalls, normScale, notNormVars>>

(***************************************************************************)
(* filter_by_regions and is_in_selected_regions                            *)
(***************************************************************************)
\* blueprint_data.get(key, []): a dict is a record of the keys it has and the
\* list under each; the list of a key it has not is empty and never read.
DictGet(data, key) ==
    IF key \in data.keys
    THEN (IF key = "walls" THEN data.walls ELSE data.doors)
    ELSE << >>

\* is_in_selected_regions(point, regions, bounds) for bounds of non-zero
\* span: x_norm = (point[0] - min_x) / (max_x - min_x), compared with the
\* region edges (in quarters) after multiplying out the divisor.
IsInSelectedRegions(point, regions, bounds) ==
    LET span_x == bounds.max[1] - bounds.min[1]
        span_y == bounds.max[2] - bounds.min[2]
        off_x == 4 * (point[1] - bounds.min[1])
        off_y == 4 * (point[2] - bounds.min[2])
    IN  \E r \in 1..Len(regions) :
            /\ regions[r].x * span_x <= off_x
            /\ off_x <= (regions[r].x + regions[r].width) * span_x
            /\ regions[r].y * span_y <= off_y
            /\ off_y <= (regions[r].y + regions[r].height) * span_y

\* The subsequence of walls kept by the loop of filter_by_regions.
RECURSIVE FilteredWalls(_, _, _)
FilteredWalls(walls, regions, bounds) ==
    IF walls = << >> THEN << >>
    ELSE LET rest == FilteredWalls(Tail(walls), regions, bounds)
         IN  IF \/ IsInSelectedRegions(walls[1].start, regions, bounds)
                \/ IsInSelectedRegions(walls[1].end, regions, bounds)
             THEN <<walls[1]>> \o rest
             ELSE rest

\* A plausible slip: only the regions are tested before the bounds are taken.
FilterByRegions_BoundsFirst(blueprint_data, regions) ==
    LET walls == DictGet(blueprint_data, "walls")
    IN  IF regions = << >>
        THEN [raised |-> "none", data |-> blueprint_data, same |-> TRUE]
        ELSE IF walls = << >>
        THEN [raised |-> "ValueError", data |-> blueprint_data, same |-> FALSE]
        ELSE [raised |-> "none", data |-> blueprint_data, same |-> FALSE]

\* filter_by_regions(blueprint_data, regions): the error raised, if any, the
\* data returned, and whether it is the argument itself.  The division in
\* is_in_selected_regions raises for the first wall when a span is zero.
FilterByRegions(blueprint_data, regions) ==
    LET walls == DictGet(blueprint_data, "walls")
    IN  IF walls = << >> \/ regions = << >>
        THEN [raised |-> "none", data |-> blueprint_data, same |-> TRUE]
        ELSE LET all_x == AllCoords(walls, 1)
                 all_y == AllCoords(walls, 2)
                 bounds == [min |-> <<SeqMin(all_x), SeqMin(all_y)>>,
                            max |-> <<SeqMax(all_x), SeqMax(all_y)>>]
             IN  IF bounds.max[1] = bounds.min[1] \/ bounds.max[2] = bounds.min[2]
                 THEN [raised |-> "ZeroDivisionError", data |-> blueprint_data,
                       same |-> FALSE]
                 ELSE [raised |-> "none",
                       data |-> [blueprint_data EXCEPT
                                    !.walls = FilteredWalls(walls, regions, bounds)],
                       same |-> FALSE]

\* Regions in quarters of the image: all of it, its right half, a corner.
Regions ==
    {[x |-> 0, y |-> 0, width |-> 4, height |-> 4],
     [x |-> 2, y |-> 0, width |-> 2, height |-> 4],
     [x |-> 3, y |-> 3, width |-> 1, height |-> 1]}
RegionLists == SeqsUpTo(Regions, 1)
\* Blueprint data with and without a 'walls' key.
BlueprintData ==
    {[keys |-> {"walls", "doors"}, walls |-> w, doors |-> << >>] :
         w \in SeqsUpTo(WallRecords, MaxWalls)}
        \cup {[keys |-> {"doors"}, walls |-> << >>, doors |-> << >>]}

FiltInit ==
    /\ filtData \in BlueprintData
    /\ filtRegions \in RegionLists
    /\ filtOut = filtData
    /\ filtSame = FALSE
    /\ filtPc = "call"

FiltIdle ==
    /\ filtData = [keys |-> {"doors"}, walls |-> << >>, doors |-> << >>]
    /\ filtRegions = << >>
    /\ filtOut = filtData
    /\ filtSame = FALSE
    /\ filtPc = "idle"

FilterByRegionsCall ==
    /\ filtPc = "call"
    /\ LET out == FilterByRegions(filtData, filtRegions)
       IN  /\ filtOut' = out.data
           /\ filtSame' = out.same
           /\ filtPc' = IF out.raised = "none" THEN "returned" ELSE out.raised
    /\ UNCHANGED <<filtData, filtRegions, notFiltVars>>

(***************************************************************************)
(* match_dxf_walls_to_detections                                           *)
(***************************************************************************)
\* A plausible slip: the box is not widened by the tolerance.
MidpointInBox_NoTolerance(wall, detection, min_x, min_y, dxf_width, dxf_height) ==
    LET det_bbox == detection.normalized
        det_x1 == det_bbox.x
        det_y1 == det_bbox.y
        det_x2 == det_x1 + det_bbox.width
        det_y2 == det_y1 + det_bbox.height
        num_x == 100 * (wall.start[1] + wall.end[1] - 2 * min_x)
        num_y == 100 * (wall.start[2] + wall.end[2] - 2 * min_y)
    IN  /\ det_x1 * 2 * dxf_width <= num_x
        /\ num_x <= det_x2 * 2 * dxf_width
        /\ det_y1 * 2 * dxf_height <= num_y
        /\ num_y <= det_y2 * 2 * dxf_height

\* The test of one wall against one detection.  norm_x is
\* (start_x + end_x - 2 * min_x) / (2 * dxf_width); the box edges and the
\* tolerance 0.02 are in hundredths, and the divisor is multiplied out.
MidpointInBox(wall, detection, min_x, min_y, dxf_width, dxf_height) ==
    LET det_bbox == detection.normalized
        det_x1 == det_bbox.x
        det_y1 == det_bbox.y
        det_x2 == det_x1 + det_bbox.width
        det_y2 == det_y1 + det_bbox.height
        tolerance == 2
        num_x == 100 * (wall.start[1] + wall.end[1] - 2 * min_x)
        num_y == 100 * (wall.start[2] + wall.end[2] - 2 * min_y)
    IN  /\ (det_x1 - tolerance) * 2 * dxf_width <= num_x
        /\ num_x <= (det_x2 + tolerance) * 2 * dxf_width
        /\ (det_y1 - tolerance) * 2 * dxf_height <= num_y
        /\ num_y <= (det_y2 + tolerance) * 2 * dxf_height

\* The walls the loop appends to matched_walls, each once, in order.
RECURSIVE MatchedWalls(_, _, _, _, _, _)
MatchedWalls(walls, detected_walls, min_x, min_y, dxf_width, dxf_height) ==
    IF walls = << >> THEN << >>
    ELSE LET rest == MatchedWalls(Tail(walls), detected_walls, min_x, min_y,
                                  dxf_width, dxf_height)
         IN  IF \E d \in 1..Len(detected_walls) :
                    MidpointInBox(walls[1], detected_walls[d], min_x, min_y,
                                  dxf_width, dxf_height)
             THEN <<walls[1]>> \o rest
             ELSE rest

\* match_dxf_walls_to_detections(dxf_walls, ml_detections, ...): the error
\* raised, if any, the list returned, and whether it is the argument itself.
\* min() of no coordinates raises ValueError; the divisions by dxf_width and
\* dxf_height are made for the first wall before any detection is looked at.
MatchDxfWallsToDetections(walls, detections) ==
    IF detections.keys = {} \/ "wall" \notin detections.keys
    THEN [raised |-> "none", walls |-> walls, same |-> TRUE]
    ELSE IF walls = << >>
    THEN [raised |-> "ValueError", walls |-> << >>, same |-> FALSE]
    ELSE LET detected_walls == detections.wall
             all_x == AllCoords(walls, 1)
             all_y == AllCoords(walls, 2)
             dxf_min_x == SeqMin(all_x)
             dxf_min_y == SeqMin(all_y)
             dxf_width == SeqMax(all_x) - dxf_min_x
             dxf_height == SeqMax(all_y) - dxf_min_y
         IN  IF dxf_width = 0 \/ dxf_height = 0
             THEN [raised |-> "ZeroDivisionError", walls |-> << >>, same |-> FALSE]
             ELSE LET matched == MatchedWalls(walls, detected_walls, dxf_min_x,
                                              dxf_min_y, dxf_width, dxf_height)
                  IN  IF matched # << >>
                      THEN [raised |-> "none", walls |-> matched, same |-> FALSE]
                      ELSE [raised |-> "none", walls |-> walls, same |-> TRUE]

\* Detections with normalized boxes in hundredths: the whole image, its right
\* half, a small box near the far corner, and a strip that starts 0.02 to the
\* right of the middle.
Detections ==
    {[normalized |-> [x |-> 0, y |-> 0, width |-> 100, height |-> 100]],
     [normalized |-> [x |-> 50, y |-> 0, width |-> 50, height |-> 100]],
     [normalized |-> [x |-> 90, y |-> 90, width |-> 5, height |-> 5]],
     [normalized |-> [x |-> 52, y |-> 0, width |-> 48, height |-> 100]]}
\* No detection, one, or two that overlap.
DetectionLists ==
    SeqsUpTo(Detections, 1)
        \cup {<<[normalized |-> [x |-> 0, y |-> 0, width |-> 100, height |-> 100]],
                [normalized |-> [x |-> 50, y |-> 0, width |-> 50, height |-> 100]]>>,
              <<[normalized |-> [x |-> 90, y |-> 90, width |-> 5, height |-> 5]],
                [normalized |-> [x |-> 50, y |-> 0, width |-> 50, height |-> 100]]>>}
\* Detection mappings: empty, without a 'wall' entry, and with one.
MlDetections ==
    {[keys |-> {}, wall |-> << >>]}
        \cup {[keys |-> {"door"}, wall |-> << >>]}
        \cup {[keys |-> {"wall"}, wall |-> w] : w \in DetectionLists}

MatchInit ==
    /\ dxf_walls \in SeqsUpTo(WallRecords, MaxWalls)
    /\ ml_detections \in MlDetections
    /\ matched_walls = << >>
    /\ matchSame = FALSE
    /\ matchPc = "call"

MatchIdle ==
    /\ dxf_walls = << >>
    /\ ml_detections = [keys |-> {}, wall |-> << >>]
    /\ matched_walls = << >>
    /\ matchSame = FALSE
    /\ matchPc = "idle"

MatchCall ==
    /\ matchPc = "call"
    /\ LET out == MatchDxfWallsToDetections(dxf_walls, ml_detections)
       IN  /\ matched_walls' = out.walls
           /\ matchSame' = out.same
           /\ matchPc' = IF out.raised = "none" THEN "returned" ELSE out.raised
    /\ UNCHANGED <<dxf_walls, ml_detections, notMatchVars>>

(***************************************************************************)
(* analyze_region_elements and is_element_in_region                        *)
(***************************************************************************)
\* The keys counted: three lists of classification_data, four of its
\* 'furniture' dict and six of its 'facilities' dict.
TopKeys == {"walls", "doors", "windows"}
FurnitureKeys == {"tables", "chairs", "beds", "sofas"}
FacilityKeys == {"toilets", "sinks", "bathtubs", "stairs", "elevators", "parking"}
CountKeys == TopKeys \cup FurnitureKeys \cup FacilityKeys

\* A plausible slip: the far edges of the region left out.
IsElementInRegion_Exclusive(element, reg) ==
    IF "normalized" \in element.has
    THEN /\ reg.x <= element.normalized[1]
         /\ element.normalized[1] < reg.x + reg.width
         /\ reg.y <= element.normalized[2]
         /\ element.normalized[2] < reg.y + reg.height
    ELSE IF "center" \in element.has /\ element.center_is_list
    THEN /\ reg.x <= element.center[1]
         /\ element.center[1] < reg.x + reg.width
         /\ reg.y <= element.center[2]
         /\ element.center[2] < reg.y + reg.height
    ELSE FALSE

\* is_element_in_region(element, region).  An element is a record of the
\* keys it has; the value under a key it has not is never read.
IsElementInRegion(element, reg) ==
    IF "normalized" \in element.has
    THEN /\ reg.x <= element.normalized[1]
         /\ element.normalized[1] <= reg.x + reg.width
         /\ reg.y <= element.normalized[2]
         /\ element.normalized[2] <= reg.y + reg.height
    ELSE IF "center" \in element.has /\ element.center_is_list
    THEN /\ reg.x <= element.center[1]
         /\ element.center[1] <= reg.x + reg.width
         /\ reg.y <= element.center[2]
         /\ element.center[2] <= reg.y + reg.height
    ELSE FALSE

\* One of the counting loops: the number of elements of a list in the region.
RECURSIVE CountInRegion(_, _)
CountInRegion(elements, reg) ==
    IF elements = << >> THEN 0
    ELSE (IF IsElementInRegion(elements[1], reg) THEN 1 ELSE 0)
             + CountInRegion(Tail(elements), reg)

\* sum(v for k, v in analysis.items() if k != 'total')
RECURSIVE SumCounts(_, _)
SumCounts(counts, keys) ==
    IF keys = {} THEN 0
    ELSE LET k == CHOOSE x \in keys : TRUE
         IN  counts[k] + SumCounts(counts, keys \ {k})

\* analyze_region_elements(classification_data, region).  A list that is
\* absent counts as the empty default of .get(); the lists of 'furniture' and
\* 'facilities' are counted only when that value is a dict.
AnalyzeRegionElements(data, reg) ==
    LET counts == [k \in CountKeys |->
                      IF k \in FurnitureKeys /\ ~data.furniture_is_dict THEN 0
                      ELSE IF k \in FacilityKeys /\ ~data.facilities_is_dict THEN 0
                      ELSE CountInRegion(data.lists[k], reg)]
    IN  [k \in CountKeys \cup {"total"} |->
            IF k = "total" THEN SumCounts(counts, CountKeys) ELSE counts[k]]

\* Elements, centres in tenths: with a 'normalized' field, with a 'center'
\* list, with both (at different places), with neither, with a 'center' that
\* is no list, and one on the far edge of the small region.
Elements ==
    {[has |-> {"normalized"}, normalized |-> <<5, 5>>, center |-> <<0, 0>>, center_is_list |-> TRUE],
     [has |-> {"center"}, normalized |-> <<0, 0>>, center |-> <<5, 5>>, center_is_list |-> TRUE],
     [has |-> {"normalized", "center"}, normalized |-> <<5, 5>>, center |-> <<9, 9>>, center_is_list |-> TRUE],
     [has |-> {}, normalized |-> <<0, 0>>, center |-> <<0, 0>>, center_is_list |-> TRUE],
     [has |-> {"center"}, normalized |-> <<0, 0>>, center |-> <<5, 5>>, center_is_list |-> FALSE],
     [has |-> {"normalized"}, normalized |-> <<7, 7>>, center |-> <<0, 0>>, center_is_list |-> TRUE]}
\* Regions in tenths: the whole image, a small square, the lower left quarter.
CountRegions ==
    {[x |-> 0, y |-> 0, width |-> 10, height |-> 10],
     [x |-> 6, y |-> 6, width |-> 1, height |-> 1],
     [x |-> 0, y |-> 0, width |-> 5, height |-> 5]}
\* Classification data holding up to two elements, each under any key.
Placements == SeqsUpTo(CountKeys \X Elements, 2)
RECURSIVE ListFor(_, _)
ListFor(key, placed) ==
    IF placed = << >> THEN << >>
    ELSE (IF placed[1][1] = key THEN <<placed[1][2]>> ELSE << >>)
             \o ListFor(key, Tail(placed))
ClassificationData ==
    {[lists |-> [k \in CountKeys |-> ListFor(k, placed)],
      furniture_is_dict |-> TRUE, facilities_is_dict |-> TRUE] : placed \in Placements}
        \cup {[lists |-> [k \in CountKeys |-> ListFor(k, placed)],
                furniture_is_dict |-> FALSE, facilities_is_dict |-> FALSE] :
                   placed \in SeqsUpTo(TopKeys \X Elements, 1)}
NoAnalysis == [k \in CountKeys \cup {"total"} |-> 0]

AnaInit ==
    /\ classification_data \in ClassificationData
    /\ region \in CountRegions
    /\ analysis = NoAnalysis
    /\ anaPc = "call"

AnaIdle ==
    /\ classification_data = [lists |-> [k \in CountKeys |-> << >>],
                               furniture_is_dict |-> TRUE, facilities_is_dict |-> TRUE]
    /\ region = [x |-> 0, y |-> 0, width |-> 10, height |-> 10]
    /\ analysis = NoAnalysis
    /\ anaPc = "idle"

AnalyzeRegionElementsCall ==
    /\ anaPc = "call"
    /\ analysis' = AnalyzeRegionElements(classification_data, region)
    /\ anaPc' = "returned"
    /\ UNCHANGED <<classification_data, region, notAnaVars>>

(***************************************************************************)
(* find_matches                                                            *)
(***************************************************************************)
\* scales, in quarters.
scales == <<2, 3, 4, 5, 6, 8>>

\* The element types asked for; self.templates is a record of the keys it
\* has and the shape (rows, columns) of the template under each.  The shape
\* under a key it has not is never read.
ElementTypes == {"door", "window", "stairs"}
NoShape == <<0, 0>>
TemplateMaps ==
    {[keys |-> {"door"},
      shape |-> [ty \in ElementTypes |-> IF ty = "door" THEN <<2, 2>> ELSE NoShape]],
     [keys |-> {"door", "window"},
      shape |-> [ty \in ElementTypes |->
                    IF ty = "door" THEN <<2, 2>>
                    ELSE IF ty = "window" THEN <<2, 3>> ELSE NoShape]]}

\* Images as cv2 shows them to find_matches: whether imread returns an array,
\* its shape (rows, columns), and the correlation cv2.matchTemplate reports
\* (in tenths) for a resized template of a given size at a given position,
\* zero where no peak is listed.
Images ==
    {[readable |-> TRUE, shape |-> <<3, 3>>,
      peaks |-> {[size |-> <<1, 1>>, pt |-> <<0, 0>>, value |-> 9],
                 [size |-> <<1, 1>>, pt |-> <<2, 1>>, value |-> 8],
                 [size |-> <<2, 2>>, pt |-> <<0, 0>>, value |-> 7],
                 [size |-> <<2, 2>>, pt |-> <<1, 1>>, value |-> 5],
                 [size |-> <<3, 3>>, pt |-> <<0, 0>>, value |-> 8]}],
     [readable |-> TRUE, shape |-> <<1, 2>>,
      peaks |-> {[size |-> <<1, 1>>, pt |-> <<1, 0>>, value |-> 9]}],
     [readable |-> FALSE, shape |-> <<0, 0>>, peaks |-> {}]}
FmThresholds == {7, 8}
FmCallers == {1, 2}

\* element_type in self.templates
HasTemplate_Always(tpl, element_type) == TRUE

HasTemplate(tpl, element_type) == element_type \in tpl.keys

\* width and height of the resized template: int(shape * scale).
ResizedSize(shape, scale) == <<(shape[2] * scale) \div 4, (shape[1] * scale) \div 4>>

\* result[y, x] of cv2.matchTemplate for a resized template of this size.
MatchTemplate(img, size, pt) ==
    IF \E p \in img.peaks : p.size = size /\ p.pt = pt
    THEN (CHOOSE p \in img.peaks : p.size = size /\ p.pt = pt).value
    ELSE 0

\* np.where(result >= threshold) walked by the inner loop: the positions of
\* result in row-major order from linear index n on, one match for each
\* whose correlation reaches the threshold.
RECURSIVE MatchesAtScale(_, _, _, _, _)
MatchesAtScale(img, size, threshold, element_type, n) ==
    LET cols == img.shape[2] - size[1] + 1
        rows == img.shape[1] - size[2] + 1
        pt == <<n % cols, n \div cols>>
    IN  IF n >= rows * cols THEN << >>
        ELSE (IF MatchTemplate(img, size, pt) >= threshold
              THEN <<[position |-> pt, size |-> size,
                      confidence |-> MatchTemplate(img, size, pt),
                      type |-> element_type]>>
              ELSE << >>)
                 \o MatchesAtScale(img, size, threshold, element_type, n + 1)

\* The resized template is taller or wider than the image.
ExceedsImage(size, img) == size[2] > img.shape[1] \/ size[1] > img.shape[2]

\* A plausible slip: break where the code has continue.
AfterSkip_Break(k) == Len(scales) + 1

\* continue: the loop goes on with the next scale.
AfterSkip(k) == k + 1

\* A plausible slip: the list kept on the instance, so that every call reads
\* the one of the first caller.
LocalMatches_OnInstance(t) == fmMatches[1]

\* The local variable matches of call t.
LocalMatches(t) == fmMatches[t]

NoArgs == [image |-> CHOOSE i \in Images : ~i.readable, element_type |-> "stairs",
           threshold |-> 7]

FmInit ==
    /\ templates \in TemplateMaps
    /\ fmPc = [t \in FmCallers |-> "idle"]
    /\ fmArgs = [t \in FmCallers |-> NoArgs]
    /\ fmRead = [t \in FmCallers |-> FALSE]
    /\ fmScale = [t \in FmCallers |-> 1]
    /\ fmTried = [t \in FmCallers |-> << >>]
    /\ fmMatches = [t \in FmCallers |-> << >>]
    /\ fmRet = [t \in FmCallers |-> << >>]

FmIdle ==
    /\ templates = [keys |-> {}, shape |-> [ty \in ElementTypes |-> NoShape]]
    /\ fmPc = [t \in FmCallers |-> "off"]
    /\ fmArgs = [t \in FmCallers |-> NoArgs]
    /\ fmRead = [t \in FmCallers |-> FALSE]
    /\ fmScale = [t \in FmCallers |-> 1]
    /\ fmTried = [t \in FmCallers |-> << >>]
    /\ fmMatches = [t \in FmCallers |-> << >>]
    /\ fmRet = [t \in FmCallers |-> << >>]

\* Lines 36-44: the test for a template, the image read, the empty list.
FindMatchesStart(t, image, element_type, threshold) ==
    /\ fmPc[t] = "idle"
    /\ fmArgs' = [fmArgs EXCEPT ![t] = [image |-> image, element_type |-> element_type,
                                         threshold |-> threshold]]
    /\ IF ~HasTemplate(templates, element_type)
       THEN /\ fmPc' = [fmPc EXCEPT ![t] = "returned"]
            /\ fmRet' = [fmRet EXCEPT ![t] = << >>]
            /\ UNCHANGED <<fmRead, fmMatches>>
       ELSE /\ fmPc' = [fmPc EXCEPT ![t] = "loop"]
            /\ fmRead' = [fmRead EXCEPT ![t] = TRUE]
            /\ fmMatches' = [fmMatches EXCEPT ![t] = << >>]
            /\ UNCHANGED fmRet
    /\ UNCHANGED <<templates, fmScale, fmTried, notFmVars>>

\* One iteration of the loop over scales, lines 46-67.  With an image that
\* imread could not read img is None and img.shape raises AttributeError.
FindMatchesScale(t) ==
    /\ fmPc[t] = "loop"
    /\ fmScale[t] <= Len(scales)
    /\ LET img == fmArgs[t].image
           scale == scales[fmScale[t]]
           size == ResizedSize(templates.shape[fmArgs[t].element_type], scale)
       IN  /\ fmTried' = [fmTried EXCEPT ![t] = Append(@, scale)]
           /\ IF ~img.readable
              THEN /\ fmPc' = [fmPc EXCEPT ![t] = "AttributeError"]
                   /\ UNCHANGED <<fmScale, fmMatches>>
              ELSE IF ExceedsImage(size, img)
              THEN /\ fmScale' = [fmScale EXCEPT ![t] = AfterSkip(@)]
                   /\ UNCHANGED <<fmPc, fmMatches>>
              ELSE /\ fmMatches' = [fmMatches EXCEPT ![t] =
                          LocalMatches(t) \o MatchesAtScale(img, size, fmArgs[t].threshold,
                                                           fmArgs[t].element_type, 0)]
                   /\ fmScale' = [fmScale EXCEPT ![t] = @ + 1]
                   /\ UNCHANGED fmPc
    /\ UNCHANGED <<templates, fmArgs, fmRead, fmRet, notFmVars>>

\* Lines 69-72: non-maximum suppression with the default threshold 0.3, and
\* the return.
FindMatchesReturn(t) ==
    /\ fmPc[t] = "loop"
    /\ fmScale[t] > Len(scales)
    /\ LET found == LocalMatches(t)
           idx == NonMaxSuppressionIdx(found, 3)
       IN  fmRet' = [fmRet EXCEPT ![t] = [k \in 1..Len(idx) |-> found[idx[k]]]]
    /\ fmPc' = [fmPc EXCEPT ![t] = "returned"]
    /\ UNCHANGED <<templates, fmArgs, fmRead, fmScale, fmTried, fmMatches, notFmVars>>

(***************************************************************************)
(* process_regions                                                         *)
(***************************************************************************)
\* ml_detections as process_regions builds it: empty when no classification
\* was stored, else the three lists of the classification file.
PrDetectionMaps ==
    {[keys |-> {}, wall |-> << >>]}
        \cup {[keys |-> {"wall", "door", "window"}, wall |-> w] :
                 w \in {<< >>,
                        <<[normalized |-> [x |-> 50, y |-> 0, width |-> 50, height |-> 100]]>>,
                        <<[normalized |-> [x |-> 90, y |-> 90, width |-> 5, height |-> 5]],
                          [normalized |-> [x |-> 50, y |-> 0, width |-> 50, height |-> 100]]>>}}

NoData == [keys |-> {"doors"}, walls |-> << >>, doors |-> << >>]
NoMeshData == [vertices |-> << >>, faces |-> << >>, metadata |-> NoMesh]

PrInit ==
    /\ prPc = "reconcile"
    /\ prData \in BlueprintData
    /\ prLoaded = DictGet(prData, "walls")
    /\ prDetections \in PrDetectionMaps
    /\ prRegions \in RegionLists
    /\ prTrace = << >>
    /\ prReconciled = << >>
    /\ prFilterIn = NoData
    /\ prFiltered = NoData
    /\ prNormalized = << >>
    /\ prMesh = NoMeshData

PrIdle ==
    /\ prPc = "off"
    /\ prData = NoData
    /\ prLoaded = << >>
    /\ prDetections = [keys |-> {}, wall |-> << >>]
    /\ prRegions = << >>
    /\ prTrace = << >>
    /\ prReconciled = << >>
    /\ prFilterIn = NoData
    /\ prFiltered = NoData
    /\ prNormalized = << >>
    /\ prMesh = NoMeshData

\* A plausible slip: the region filter is handed the data as loaded.
RegionFilterInput_AsLoaded(loaded, data) == [data EXCEPT !.walls = loaded]

\* The first argument of filter_by_regions at line 270: blueprint_data, whose
\* 'walls' line 265 has replaced.
RegionFilterInput(loaded, data) == data

\* ml_detections.get('wall'): truthy for a non-empty list.
HasWallDetections(detections) == "wall" \in detections.keys /\ detections.wall # << >>

\* Lines 258-266.  An error raised by the reconciler is caught at line 293
\* and the request answered with status 500.
ProcessReconcile ==
    /\ prPc = "reconcile"
    /\ IF HasWallDetections(prDetections)
       THEN LET out == MatchDxfWallsToDetections(DictGet(prData, "walls"), prDetections)
            IN  /\ prTrace' = Append(prTrace, "reconcile")
                /\ IF out.raised = "none"
                   THEN /\ prReconciled' = out.walls
                        /\ prData' = [prData EXCEPT !.keys = @ \cup {"walls"},
                                                    !.walls = out.walls]
                        /\ prPc' = "filter"
                   ELSE /\ prPc' = out.raised
                        /\ UNCHANGED <<prReconciled, prData>>
       ELSE /\ prPc' = "filter"
            /\ UNCHANGED <<prTrace, prReconciled, prData>>
    /\ UNCHANGED <<prLoaded, prDetections, prRegions, prFilterIn, prFiltered, prNormalized,
                   prMesh, notPrVars>>

\* Lines 269-273.
ProcessRegionFilter ==
    /\ prPc = "filter"
    /\ IF prRegions # << >>
       THEN LET arg == RegionFilterInput(prLoaded, prData)
                out == FilterByRegions(arg, prRegions)
            IN  /\ prTrace' = Append(prTrace, "region filter")
                /\ prFilterIn' = arg
                /\ IF out.raised = "none"
                   THEN prFiltered' = out.data /\ prPc' = "normalise"
                   ELSE prPc' = out.raised /\ UNCHANGED prFiltered
       ELSE /\ prFiltered' = prData
            /\ prPc' = "normalise"
            /\ UNCHANGED <<prTrace, prFilterIn>>
    /\ UNCHANGED <<prLoaded, prData, prDetections, prRegions, prReconciled, prNormalized,
                   prMesh, notPrVars>>

\* Line 279 and lines 16-20 of generate(): a new MeshGenerator over
\* filtered_data, and its walls normalised with scale 1.0.
ProcessNormalize ==
    /\ prPc = "normalise"
    /\ prNormalized' = NormalizeCoordinates(DictGet(prFiltered, "walls"), 1)
    /\ prTrace' = Append(prTrace, "normalise")
    /\ prPc' = "extrude"
    /\ UNCHANGED <<prLoaded, prData, prDetections, prRegions, prReconciled, prFilterIn,
                   prFiltered, prMesh, notPrVars>>

\* Lines 23-32 of generate() on the empty buffers of the new instance, with
\* wall_height 3.0, and the response of lines 282-291.
ProcessExtrude ==
    /\ prPc = "extrude"
    /\ LET out == ExtrudeWalls(<< >>, << >>, prNormalized, Halves(3))
       IN  prMesh' = [vertices |-> out.vertices, faces |-> out.faces,
                      metadata |-> [wall_count |-> Len(prNormalized),
                                    wall_height |-> Halves(3)]]
    /\ prTrace' = Append(prTrace, "extrude")
    /\ prPc' = "returned"
    /\ UNCHANGED <<prLoaded, prData, prDetections, prRegions, prReconciled, prFilterIn,
                   prFiltered, prNormalized, notPrVars>>

ExtraIdle == AnaIdle /\ FmIdle /\ PrIdle
RestIdle == NormIdle /\ FiltIdle /\ MatchIdle /\ ExtraIdle

(***************************************************************************)
(* Claims about _non_max_suppression and _calculate_iou                    *)
(***************************************************************************)
\* The unit cells a box covers, and "IoU above the threshold" counted on cells:
\* |A n B| / |A u B| > thr / 10, an empty union counting as IoU 0.
Cells(b) == {<<i, j>> : i \in b[1]..(b[1] + b[3] - 1), j \in b[2]..(b[2] + b[4] - 1)}

OverlapExceeds(a, b, thr) ==
    10 * Cardinality(Cells(a) \cap Cells(b)) > thr * Cardinality(Cells(a) \cup Cells(b))

KeptIoUAbove(i, j) == OverlapExceeds(BoxOf(kept[i]), BoxOf(kept[j]), overlap_threshold)

CandIoUAbove(i, j) == OverlapExceeds(BoxOf(matches[i]), BoxOf(matches[j]), overlap_threshold)

\* C1: no two matches of the list returned by _non_max_suppression have an
\* IoU with each other above the overlap threshold.
C1_NoOverlapAmongKept ==
    nmsPc = "done" =>
        \A i, j \in 1..Len(kept) : i # j => ~KeptIoUAbove(i, j)

\* A call that suppressed a candidate and kept two others.
C1_Witness ==
    /\ nmsPc = "done"
    /\ Len(matches) = 3
    /\ Len(kept) = 2

\* C2: with exactly two candidates, IoU above the threshold leaves exactly the
\* higher-confidence candidate, IoU at or below the threshold leaves both.
C2_TwoCandidates ==
    (nmsPc = "done" /\ Len(matches) = 2) =>
        /\ CandIoUAbove(1, 2) =>
              /\ Len(kept) = 1
              /\ matches[1].confidence > matches[2].confidence => keptIdx = <<1>>
              /\ matches[2].confidence > matches[1].confidence => keptIdx = <<2>>
        /\ ~CandIoUAbove(1, 2) =>
              /\ Len(kept) = 2
              /\ {keptIdx[k] : k \in 1..2} = {1, 2}
        /\ kept = [k \in 1..Len(keptIdx) |-> matches[keptIdx[k]]]

\* Two overlapping candidates, the second with the higher confidence, and the
\* second alone survived.
C2_Witness ==
    /\ nmsPc = "done"
    /\ Len(matches) = 2
    /\ CandIoUAbove(1, 2)
    /\ matches[2].confidence > matches[1].confidence
    /\ keptIdx = <<2>>

KeptSet == {keptIdx[k] : k \in 1..Len(keptIdx)}

\* Candidates i < j tie on confidence, overlap above the threshold, and no
\* other kept match overlaps either of them above the threshold.
TiedPair(i, j) ==
    /\ i < j
    /\ matches[i].confidence = matches[j].confidence
    /\ CandIoUAbove(i, j)
    /\ \A k \in KeptSet \ {i, j} : ~CandIoUAbove(i, k) /\ ~CandIoUAbove(j, k)

\* C3: confidence ties are broken by discovery order: of two candidates of
\* equal confidence that overlap above the threshold (neither suppressed by
\* another kept match) the one earlier in the candidate list survives, the
\* later one does not; the returned list is in non-increasing confidence with
\* equal confidences in candidate order.
C3_TiesByDiscoveryOrder ==
    nmsPc = "done" =>
        /\ \A i, j \in 1..Len(matches) :
              TiedPair(i, j) => (i \in KeptSet /\ j \notin KeptSet)
        /\ \A a, b \in 1..Len(keptIdx) : a < b =>
              \/ matches[keptIdx[a]].confidence > matches[keptIdx[b]].confidence
              \/ /\ matches[keptIdx[a]].confidence = matches[keptIdx[b]].confidence
                 /\ keptIdx[a] < keptIdx[b]

\* A tie between two different boxes, behind a higher-confidence candidate that
\* overlaps neither: the earlier of the two survived.
C3_Witness ==
    /\ nmsPc = "done"
    /\ Len(matches) = 3
    /\ TiedPair(2, 3)
    /\ matches[2] # matches[3]
    /\ matches[1].confidence < matches[2].confidence
    /\ keptIdx = <<2, 1>>

\* Candidate j is visited before candidate i: higher confidence, or the same
\* confidence and earlier in the list.
VisitedBefore(j, i) ==
    \/ matches[j].confidence > matches[i].confidence
    \/ matches[j].confidence = matches[i].confidence /\ j < i

\* C28: the result is the greedy selection in descending confidence order: a
\* sub-list of the candidates in non-increasing confidence, the candidate
\* visited first always in it, a candidate kept exactly when its IoU with
\* every candidate kept before it is <= overlap_threshold, and so every
\* discarded candidate has IoU > overlap_threshold with a kept candidate of
\* confidence at least its own.
C28_GreedySelection ==
    nmsPc = "done" =>
        /\ Len(kept) = Len(keptIdx)
        /\ \A k \in 1..Len(keptIdx) :
              keptIdx[k] \in 1..Len(matches) /\ kept[k] = matches[keptIdx[k]]
        /\ \A a, b \in 1..Len(keptIdx) :
              a < b => (keptIdx[a] # keptIdx[b]
                           /\ kept[a].confidence >= kept[b].confidence)
        /\ \A i \in 1..Len(matches) :
              (\A j \in 1..Len(matches) : j # i => VisitedBefore(i, j)) => i \in KeptSet
        /\ \A i \in 1..Len(matches) :
              i \in KeptSet <=>
                  \A j \in KeptSet : VisitedBefore(j, i) => ~CandIoUAbove(i, j)
        /\ \A i \in (1..Len(matches)) \ KeptSet :
              \E j \in KeptSet :
                  CandIoUAbove(i, j) /\ matches[j].confidence >= matches[i].confidence

\* Three candidates: the second in confidence is discarded for its overlap
\* with the first, the third overlaps the discarded one only and is kept.
C28_Witness ==
    /\ nmsPc = "done"
    /\ Len(matches) = 3
    /\ keptIdx = <<1, 3>>
    /\ matches[1].confidence > matches[3].confidence
    /\ CandIoUAbove(2, 1)
    /\ CandIoUAbove(2, 3)
    /\ ~CandIoUAbove(1, 3)

Area(b) == b[3] * b[4]

\* C4: _calculate_iou is symmetric, and the IoU of a box of nonzero area with
\* itself is 1.
C4_IoUSymmetric ==
    iouPc = "done" =>
        /\ IoUEq(iou12, iou21)
        /\ Area(box1) # 0 => (iou11[1] = iou11[2] /\ iou11[2] > 0)

\* Two different boxes of different areas that overlap partly.
C4_Witness ==
    /\ iouPc = "done"
    /\ Area(box1) # 0
    /\ Area(box1) # Area(box2)
    /\ iou12[1] > 0
    /\ iou12[1] < iou12[2]


(***************************************************************************)
(* Claims about _classify_contour                                          *)
(***************************************************************************)
\* The ordered rule list, first match winning, over the descriptor values.
RuleList(area, perimeter, circularity, num_vertices, aspect_ratio) ==
    IF perimeter = 0 THEN "unknown"
    ELSE IF RatGT(circularity, 7, 10) /\ area < 5000 THEN "door"
    ELSE IF /\ num_vertices = 4
            /\ 200 < area /\ area < 3000
            /\ RatGT(aspect_ratio, 3, 10) /\ RatLT(aspect_ratio, 3, 1) THEN "window"
    ELSE IF /\ num_vertices = 4
            /\ (RatGT(aspect_ratio, 5, 1) \/ RatLT(aspect_ratio, 2, 10))
            /\ area > 1000 THEN "wall"
    ELSE IF num_vertices > 6 /\ area > 1000 THEN "furniture"
    ELSE IF RatGT(circularity, 8, 10) /\ area > 500 THEN "furniture"
    ELSE "unknown"

\* C5: _classify_contour returns the category the ordered rule list gives
\* (perimeter 0 -> unknown; door; window; wall; furniture by vertices; furniture
\* by circularity; otherwise unknown), for every combination of descriptors.
C5_RuleOrder ==
    clsPc = "done" =>
        category = RuleList(contour.area, contour.perimeter, Circularity(contour),
                            contour.num_vertices, AspectRatio(contour))

\* A contour of area >= 100 that only the last rule but one catches: too large
\* for a door, too few vertices for the first furniture rule, circular.
C5_Witness ==
    /\ clsPc = "done"
    /\ contour.area >= 5000
    /\ contour.num_vertices <= 6
    /\ category = "furniture"

\* C6 as stated: 4 vertices, area 1500: aspect ratio 8.0 gives wall, aspect
\* ratio 1.0 gives unknown or furniture (neither wall nor window).
C6_Original ==
    (clsPc = "done" /\ contour.num_vertices = 4 /\ contour.area = 1500) =>
        /\ contour.w = 8 * contour.h => category = "wall"
        /\ contour.w = contour.h => category \in {"unknown", "furniture"}

\* C6 amended: 4 vertices, area 1500: aspect ratio 8.0 gives wall; aspect ratio
\* 1.0 gives door when the circularity is above 0.7 and window otherwise, never
\* wall, unknown or furniture.
C6_Amended ==
    (clsPc = "done" /\ contour.num_vertices = 4 /\ contour.area = 1500) =>
        /\ contour.w = 8 * contour.h => category = "wall"
        /\ contour.w = contour.h =>
              category = IF RatGT(Circularity(contour), 7, 10) THEN "door" ELSE "window"

\* The aspect-ratio-1.0 contour of the claim, classified as a window.
C6_Witness ==
    /\ clsPc = "done"
    /\ contour.num_vertices = 4
    /\ contour.area = 1500
    /\ contour.w = contour.h
    /\ category = "window"

\* The aspect-ratio-8.0 contour of the claim, classified as a wall.
C6_WallCase ==
    /\ clsPc = "done"
    /\ contour.num_vertices = 4
    /\ contour.area = 1500
    /\ contour.w = 8 * contour.h
    /\ category = "wall"

\* C7: a contour with nonzero perimeter, circularity > 0.7 and area < 5000 is a
\* door whatever its vertex count and aspect ratio; with circularity > 0.8 and
\* 500 < area < 5000 it is never furniture.
C7_DoorBeforeFurniture ==
    (clsPc = "done" /\ contour.perimeter # 0) =>
        /\ (RatGT(Circularity(contour), 7, 10) /\ contour.area < 5000)
              => category = "door"
        /\ (RatGT(Circularity(contour), 8, 10) /\ 500 < contour.area /\ contour.area < 5000)
              => category # "furniture"

\* A contour both furniture rules would take (7 vertices, area > 1000,
\* circularity > 0.8) that is a door because its area is below 5000.
C7_Witness ==
    /\ clsPc = "done"
    /\ contour.num_vertices > 6
    /\ contour.area > 1000
    /\ contour.area < 5000
    /\ RatGT(Circularity(contour), 8, 10)
    /\ category = "door"

(***************************************************************************)
(* Claims about classify_from_image                                        *)
(***************************************************************************)
\* The contours of caller t's image visited so far that are not noise.
VisitedLarge(t) ==
    {k \in 1..clfI[t] : ImageContours(clfImage[t])[k].area >= 100}

C8_Count ==
    \A t \in Callers :
        clfPc[t] \in {"loop", "returned"} /\ clfRet[t] # "error" =>
            clfAdded[t] = Cardinality(VisitedLarge(t))

\* Caller t has just run one iteration of the loop.
SteppedBy(t) == clfI'[t] = clfI[t] + 1

C8_StepAppendsOnce ==
    /\ (\E t \in Callers : SteppedBy(t)) \/ element_types' = element_types
    /\ \A t \in Callers : SteppedBy(t) =>
          LET c == ImageContours(clfImage[t])[clfI'[t]]
          IN  IF c.area >= 100
              THEN \E cat \in Categories :
                      /\ element_types'[cat] = Append(element_types[cat], ElementOf(c))
                      /\ \A other \in Categories \ {cat} :
                            element_types'[other] = element_types[other]
              ELSE element_types' = element_types

\* C8: in one classify_from_image call every contour with area >= 100 is
\* appended to exactly one of the five category lists and every contour with
\* area < 100 to none, so the number of elements the call has added equals the
\* number of contours with area >= 100 it has visited.
C8_EveryContourOnce == []C8_Count /\ [][C8_StepAppendsOnce]_vars

\* A finished call on a.png (areas 1500, 99, 100) that added two elements while
\* the lists also hold elements of other calls.
C8_Witness ==
    /\ clfPc[1] = "returned"
    /\ clfImage[1] = "a.png"
    /\ clfAdded[1] = 2
    /\ TotalElements(element_types) > 2

\* The point lists of the contours of an image.
PtsOf(name) == {ImageContours(name)[k].pts : k \in 1..Len(ImageContours(name))}

\* C9: the partition a classify_from_image call returned holds only elements
\* of the image passed to that call.
C9_FreshPartition ==
    \A t \in Callers :
        (clfPc[t] = "returned" /\ clfRet[t] = "element_types") =>
            \A cat \in Categories : \A k \in 1..Len(element_types[cat]) :
                element_types[cat][k].contour \in PtsOf(clfImage[t])

(***************************************************************************)
(* Claims about MeshGenerator                                              *)
(***************************************************************************)
\* The k-th block of four vertices.
Block(k) == [j \in 1..4 |-> vertices[4 * (k - 1) + j]]

\* C10: after any sequence of generate() calls every index in every face is
\* smaller than len(vertices), and the vertices are consecutive blocks of 4,
\* the k-th block standing on the end points of the k-th wall processed.
C10_FacesInRangeBlocksOfFour ==
    genCalls > 0 =>
        /\ \A f \in 1..Len(faces) : \A j \in 1..3 :
              faces[f][j] >= 0 /\ faces[f][j] < Len(vertices)
        /\ Len(vertices) = 4 * Len(extruded)
        /\ \A k \in 1..Len(extruded) :
              {<<Block(k)[j][1], Block(k)[j][3]>> : j \in 1..4}
                  = {extruded[k].start, extruded[k].end}

\* Two generate() calls on an instance with two different walls: four blocks.
C10_Witness ==
    /\ genCalls = 2
    /\ Len(blueprint_walls) = 2
    /\ blueprint_walls[1] # blueprint_walls[2]
    /\ Len(vertices) = 16
    /\ Len(faces) = 8

\* C11: for each wall (sx, sz)-(ex, ez) handed to _extrude_walls the four
\* vertices (sx,0,sz), (ex,0,ez), (ex,h,ez), (sx,h,sz) are appended in that
\* order, and the two faces (base, base+1, base+2), (base, base+2, base+3),
\* base being the vertex count before the wall and h the configured height;
\* nothing else is appended.
C11_FourVerticesTwoFaces ==
    /\ Len(vertices) = 4 * Len(extruded)
    /\ Len(faces) = 2 * Len(extruded)
    /\ \A k \in 1..Len(extruded) :
          LET sx == extruded[k].start[1]
              sz == extruded[k].start[2]
              ex == extruded[k].end[1]
              ez == extruded[k].end[2]
              base == 4 * (k - 1)
          IN  /\ Block(k) = << <<sx, 0, sz>>, <<ex, 0, ez>>,
                               <<ex, wall_height, ez>>, <<sx, wall_height, sz>> >>
              /\ faces[2 * k - 1] = <<base, base + 1, base + 2>>
              /\ faces[2 * k] = <<base, base + 2, base + 3>>

\* A wall whose end points differ in both coordinates has been extruded as
\* the second wall of a call.
C11_Witness ==
    /\ genCalls = 1
    /\ Len(extruded) = 2
    /\ extruded[2].start[1] # extruded[2].end[1]
    /\ extruded[2].start[2] # extruded[2].end[2]
    /\ Len(vertices) = 8

\* The blueprint whose only wall runs from [0,0] to [10,0].
OneWallBlueprint ==
    /\ Len(blueprint_walls) = 1
    /\ blueprint_walls[1].start = <<0, 0>>
    /\ blueprint_walls[1].end = <<10, 0>>
    /\ wall_height = Halves(3)

\* C12 as stated: generate() on that blueprint with wall_height 3 returns the
\* vertices (0,0,0), (10,0,0), (10,3,0), (0,3,0) and the faces (0,1,2),
\* (0,2,3).
C12_Original ==
    (OneWallBlueprint /\ genCalls > 0) =>
        /\ vertices = << <<Halves(0), 0, Halves(0)>>, <<Halves(10), 0, Halves(0)>>,
                         <<Halves(10), Halves(3), Halves(0)>>,
                         <<Halves(0), Halves(3), Halves(0)>> >>
        /\ faces = << <<0, 1, 2>>, <<0, 2, 3>> >>

\* C12, amended: generate() centres the wall first, so the mesh returned for
\* that blueprint begins with the vertices (-5,0,0), (5,0,0), (5,3,0),
\* (-5,3,0) and the faces (0,1,2), (0,2,3); the first call on an instance
\* returns exactly these.
C12_Amended ==
    (OneWallBlueprint /\ genCalls > 0) =>
        /\ SubSeq(vertices, 1, 4) =
              << <<Halves(-5), 0, Halves(0)>>, <<Halves(5), 0, Halves(0)>>,
                 <<Halves(5), Halves(3), Halves(0)>>,
                 <<Halves(-5), Halves(3), Halves(0)>> >>
        /\ SubSeq(faces, 1, 2) = << <<0, 1, 2>>, <<0, 2, 3>> >>
        /\ genCalls = 1 => (Len(vertices) = 4 /\ Len(faces) = 2)

\* The first generate() on that blueprint has returned.
C12_Witness ==
    /\ OneWallBlueprint
    /\ genCalls = 1
    /\ Len(vertices) = 4

\* C13: the mesh every generate() call returns, a second call on the same
\* instance included, has wall_count equal to the number of input walls, the
\* configured wall_height, 4 * wall_count vertices and 2 * wall_count faces.
C13_CountsPerCall ==
    genCalls > 0 =>
        /\ mesh.wall_count = Len(blueprint_walls)
        /\ mesh.wall_height = wall_height
        /\ Len(vertices) = 4 * mesh.wall_count
        /\ Len(faces) = 2 * mesh.wall_count

\* C14: two instances built from the same blueprint data and wall_height but
\* different wall_thickness return, call for call, the same vertices, faces
\* and metadata.
C14_ThicknessIgnored ==
    (wall_thickness # twinThickness /\ genCalls = twinCalls /\ genCalls > 0) =>
        /\ vertices = twinVertices
        /\ faces = twinFaces
        /\ mesh = twinMesh

\* Both instances, of different thickness, have generated a mesh of a wall.
C14_Witness ==
    /\ wall_thickness # twinThickness
    /\ genCalls = 1
    /\ twinCalls = 1
    /\ Len(blueprint_walls) > 0
    /\ Len(twinVertices) = 4 * Len(blueprint_walls)

(***************************************************************************)
(* Claims about normalize_coordinates                                      *)
(***************************************************************************)
Axes == {1, 2}
Abs(n) == IF n < 0 THEN -n ELSE n
SetMin(S) == CHOOSE x \in S : \A y \in S : x <= y
SetMax(S) == CHOOSE x \in S : \A y \in S : x >= y
\* The coordinates on one axis of the end points of a wall list.
CoordSet(walls, axis) ==
    {walls[k].start[axis] : k \in 1..Len(walls)}
        \cup {walls[k].end[axis] : k \in 1..Len(walls)}
\* min + max of the bounding box of the returned list on one axis, in halves.
OutMinPlusMax(axis) == SetMin(CoordSet(normOut, axis)) + SetMax(CoordSet(normOut, axis))
\* min + max of the bounding box of the input on one axis.
InMinPlusMax(axis) == SetMin(CoordSet(normWalls, axis)) + SetMax(CoordSet(normWalls, axis))
\* No operation of the call on this axis had to round its result.
NoRounding(axis) ==
    /\ FlRound(InMinPlusMax(axis)) = InMinPlusMax(axis)
    /\ \A c \in CoordSet(normWalls, axis) :
          LET d == 2 * c - InMinPlusMax(axis)
          IN  FlRound(d) = d /\ FlRound(d * normScale) = d * normScale

C16_Coordinates ==
    normPc = "returned" =>
        /\ Len(normOut) = Len(normWalls)
        /\ \A k \in 1..Len(normWalls) : \A axis \in Axes :
              LET twice_center == FlRound(InMinPlusMax(axis))
              IN  /\ normOut[k].start[axis] =
                        FlRound(FlRound(2 * normWalls[k].start[axis] - twice_center) * normScale)
                  /\ normOut[k].end[axis] =
                        FlRound(FlRound(2 * normWalls[k].end[axis] - twice_center) * normScale)

\* C16: normalize_coordinates returns a list of the same length and order
\* with every coordinate equal to (coord - center) * scale, and leaves the
\* input list and its wall records as they were.
C16_NewListInputKept == []C16_Coordinates /\ [][normWalls' = normWalls]_vars

\* Two walls off centre, scaled by 2: the result differs from the input.
C16_Witness ==
    /\ normPc = "returned"
    /\ Len(normWalls) = 2
    /\ normScale = 2
    /\ normWalls[1] # normWalls[2]
    /\ \A k \in 1..2 : normOut[k].start # normWalls[k].start

(***************************************************************************)
(* Claims about empty input                                                *)
(***************************************************************************)
\* C17: with an empty wall list normalize_coordinates returns an empty list,
\* generate() returns a mesh with no vertices, no faces and wall_count 0,
\* filter_by_regions returns data with no walls, and _non_max_suppression on
\* an empty candidate list returns an empty list; none of them raises.
C17_EmptyInEmptyOut ==
    /\ (normPc # "call" /\ normWalls = << >>) =>
           (normPc = "returned" /\ normOut = << >>)
    /\ (genCalls > 0 /\ blueprint_walls = << >>) =>
           (vertices = << >> /\ faces = << >> /\ mesh.wall_count = 0)
    /\ (filtPc # "call" /\ DictGet(filtData, "walls") = << >>) =>
           (filtPc = "returned" /\ DictGet(filtOut, "walls") = << >>)
    /\ (nmsPc # "call" /\ matches = << >>) =>
           (nmsPc = "done" /\ kept = << >>)

\* All four have been called on an empty list, the filter with a region
\* selected and generate() twice.
C17_Witness ==
    /\ normPc = "returned" /\ normWalls = << >>
    /\ genCalls = 2 /\ blueprint_walls = << >>
    /\ filtPc = "returned" /\ "walls" \in filtData.keys /\ filtData.walls = << >>
    /\ filtRegions # << >>
    /\ nmsPc = "done" /\ matches = << >>

(***************************************************************************)
(* Claims about match_dxf_walls_to_detections                              *)
(***************************************************************************)
\* C18: with an empty wall list and a detections mapping that has a 'wall'
\* entry the call returns an empty wall list and raises nothing.
C18_EmptyWallsReturnEmpty ==
    (matchPc # "call" /\ dxf_walls = << >> /\ "wall" \in ml_detections.keys) =>
        (matchPc = "returned" /\ matched_walls = << >>)

\* There are no detections for the wall category: the mapping is empty, has
\* no 'wall' entry, or its 'wall' list is empty.
NoWallDetections ==
    \/ ml_detections.keys = {}
    \/ "wall" \notin ml_detections.keys
    \/ ml_detections.wall = << >>

\* C19: when there are no detections for the wall category the call returns
\* the original wall list unchanged, for every wall list.
C19_NoDetectionsReturnAll ==
    (matchPc # "call" /\ NoWallDetections) =>
        (matchPc = "returned" /\ matched_walls = dxf_walls)

\* The midpoint of some wall lies inside some detection box widened by the
\* tolerance, the midpoint taken relative to the walls' bounding box; counted
\* on the coordinates directly.
SomeMidpointDetected ==
    LET xs == CoordSet(dxf_walls, 1)
        ys == CoordSet(dxf_walls, 2)
        w == SetMax(xs) - SetMin(xs)
        h == SetMax(ys) - SetMin(ys)
    IN  \E k \in 1..Len(dxf_walls), d \in 1..Len(ml_detections.wall) :
            LET box == ml_detections.wall[d].normalized
                mx == 50 * (dxf_walls[k].start[1] + dxf_walls[k].end[1]) - 100 * SetMin(xs)
                my == 50 * (dxf_walls[k].start[2] + dxf_walls[k].end[2]) - 100 * SetMin(ys)
            IN  /\ (box.x - 2) * w <= mx /\ mx <= (box.x + box.width + 2) * w
                /\ (box.y - 2) * h <= my /\ my <= (box.y + box.height + 2) * h

\* C20: for every non-empty wall list and every detections mapping the call
\* returns a non-empty list, the original list when no wall's midpoint falls
\* inside any detection.
C20_NeverEmptyResult ==
    (matchPc # "call" /\ dxf_walls # << >>) =>
        /\ matchPc = "returned"
        /\ matched_walls # << >>
        /\ ("wall" \in ml_detections.keys /\ ~SomeMidpointDetected) =>
               matched_walls = dxf_walls

\* The bounding box of dxf_walls has zero width or zero height.
DegenerateBounds ==
    \/ SetMax(CoordSet(dxf_walls, 1)) = SetMin(CoordSet(dxf_walls, 1))
    \/ SetMax(CoordSet(dxf_walls, 2)) = SetMin(CoordSet(dxf_walls, 2))

\* C21: when the walls' bounding box has zero width or zero height and a
\* 'wall' detection entry is present, the call returns a wall list and raises
\* no division error.
C21_DegenerateBoundsGuarded ==
    (matchPc # "call" /\ dxf_walls # << >> /\ DegenerateBounds
        /\ "wall" \in ml_detections.keys) =>
        matchPc = "returned"

\* The normalised midpoint of the k-th wall is defined and lies inside the
\* box of some detection widened by 0.02, bounds inclusive; counted on the
\* coordinates directly.
WallMatches(k) ==
    LET xs == CoordSet(dxf_walls, 1)
        ys == CoordSet(dxf_walls, 2)
        w == SetMax(xs) - SetMin(xs)
        h == SetMax(ys) - SetMin(ys)
        mx == 50 * (dxf_walls[k].start[1] + dxf_walls[k].end[1]) - 100 * SetMin(xs)
        my == 50 * (dxf_walls[k].start[2] + dxf_walls[k].end[2]) - 100 * SetMin(ys)
    IN  /\ w > 0 /\ h > 0
        /\ \E d \in 1..Len(ml_detections.wall) :
              LET box == ml_detections.wall[d].normalized
              IN  /\ (box.x - 2) * w <= mx /\ mx <= (box.x + box.width + 2) * w
                  /\ (box.y - 2) * h <= my /\ my <= (box.y + box.height + 2) * h

\* The elements of q at the positions in keep, in their order in q.
RECURSIVE SubList(_, _, _)
SubList(q, keep, n) ==
    IF n = 0 THEN << >>
    ELSE IF n \in keep THEN Append(SubList(q, keep, n - 1), q[n])
    ELSE SubList(q, keep, n - 1)

\* C22: when at least one wall matches, the call returns exactly the walls
\* whose normalised midpoint lies in some detection box widened by 0.02,
\* bounds inclusive, in original order and each once.
C22_ExactlyTheMatchingWalls ==
    (matchPc # "call" /\ "wall" \in ml_detections.keys
        /\ \E k \in 1..Len(dxf_walls) : WallMatches(k)) =>
        /\ matchPc = "returned"
        /\ matched_walls =
              SubList(dxf_walls, {k \in 1..Len(dxf_walls) : WallMatches(k)}, Len(dxf_walls))

\* Two walls and two overlapping detections: the first wall lies in both and
\* is returned once, the second in neither; and a wall whose midpoint is on
\* the widened edge of a strip is returned.
C22_Witness ==
    /\ matchPc = "returned"
    /\ Len(dxf_walls) = 2
    /\ "wall" \in ml_detections.keys
    /\ Len(ml_detections.wall) = 2
    /\ WallMatches(1) /\ ~WallMatches(2)
    /\ matched_walls = <<dxf_walls[1]>>

(***************************************************************************)
(* Claims about analyze_region_elements                                    *)
(***************************************************************************)
\* Whether an element has a centre, and the centre: normalized.center_x/y
\* when a 'normalized' field is present, otherwise the 'center' list.
HasCentre(e) == "normalized" \in e.has \/ ("center" \in e.has /\ e.center_is_list)
CentreOf(e) == IF "normalized" \in e.has THEN e.normalized ELSE e.center
\* The positions of a list whose element has its centre in the region, both
\* bounds inclusive.
CountedIn(elements) ==
    {i \in 1..Len(elements) :
        /\ HasCentre(elements[i])
        /\ region.x <= CentreOf(elements[i])[1]
        /\ CentreOf(elements[i])[1] <= region.x + region.width
        /\ region.y <= CentreOf(elements[i])[2]
        /\ CentreOf(elements[i])[2] <= region.y + region.height}
\* All the elements in the data that are counted, as (key, position) pairs;
\* no list drawn is longer than two.
AllCounted ==
    {kp \in CountKeys \X (1..2) : kp[2] \in CountedIn(classification_data.lists[kp[1]])}

\* C23: per category the count is the number of elements whose centre lies
\* in the region, 'total' is the sum of the category counts, and an element
\* at (0.5, 0.5) is counted by region {0,0,1,1} and not by {0.6,0.6,0.1,0.1}.
C23_CountsPerCategory ==
    anaPc = "returned" =>
        /\ \A k \in CountKeys :
              analysis[k] = Cardinality(CountedIn(classification_data.lists[k]))
        /\ analysis["total"] = Cardinality(AllCounted)
        /\ \A k \in CountKeys :
              (/\ Len(classification_data.lists[k]) = 1
               /\ classification_data.lists[k][1].has = {"normalized"}
               /\ classification_data.lists[k][1].normalized = <<5, 5>>) =>
                  /\ (region.x = 0 /\ region.y = 0 /\ region.width = 10
                         /\ region.height = 10) => analysis[k] = 1
                  /\ (region.x = 6 /\ region.y = 6 /\ region.width = 1
                         /\ region.height = 1) => analysis[k] = 0

\* Two elements under two different keys, one of them on the far edge of the
\* region and counted, the other without a centre and not counted.
C23_Witness ==
    /\ anaPc = "returned"
    /\ region.x = 6 /\ region.width = 1
    /\ Len(classification_data.lists["sofas"]) = 1
    /\ Len(classification_data.lists["parking"]) = 1
    /\ classification_data.lists["sofas"][1].normalized = <<7, 7>>
    /\ classification_data.lists["parking"][1].has = {}
    /\ analysis["sofas"] = 1
    /\ analysis["parking"] = 0
    /\ analysis["total"] = 1

(***************************************************************************)
(* Claims about filter_by_regions                                          *)
(***************************************************************************)
\* The point, taken relative to the bounding box of the walls of filtData,
\* lies in some region of filtRegions (in quarters), bounds inclusive.
PointInSomeRegion(pt) ==
    LET walls == DictGet(filtData, "walls")
        xs == CoordSet(walls, 1)
        ys == CoordSet(walls, 2)
        w == SetMax(xs) - SetMin(xs)
        h == SetMax(ys) - SetMin(ys)
        px == 4 * (pt[1] - SetMin(xs))
        py == 4 * (pt[2] - SetMin(ys))
    IN  /\ w > 0 /\ h > 0
        /\ \E r \in 1..Len(filtRegions) :
              /\ filtRegions[r].x * w <= px
              /\ px <= (filtRegions[r].x + filtRegions[r].width) * w
              /\ filtRegions[r].y * h <= py
              /\ py <= (filtRegions[r].y + filtRegions[r].height) * h

\* The positions of the walls with at least one end point in some region.
WallsInRegions ==
    {k \in 1..Len(DictGet(filtData, "walls")) :
        \/ PointInSomeRegion(DictGet(filtData, "walls")[k].start)
        \/ PointInSomeRegion(DictGet(filtData, "walls")[k].end)}

\* C24: filter_by_regions returns blueprint data whose walls are exactly the
\* walls, in original order, with at least one end point inside at least one
\* region; every other field of the data is as in the input.
C24_ExactlyWallsInRegions ==
    filtPc # "call" =>
        /\ filtPc = "returned"
        /\ DictGet(filtOut, "walls") =
              SubList(DictGet(filtData, "walls"), WallsInRegions,
                      Len(DictGet(filtData, "walls")))
        /\ filtOut.doors = filtData.doors

\* The bounding box of the walls of filtData has zero span in x or in y.
FiltDegenerate ==
    \/ SetMax(CoordSet(filtData.walls, 1)) = SetMin(CoordSet(filtData.walls, 1))
    \/ SetMax(CoordSet(filtData.walls, 2)) = SetMin(CoordSet(filtData.walls, 2))

\* C25: filter_by_regions with at least one region and a non-empty wall list
\* whose bounding box has zero span in x or in y returns a result and raises
\* no division error.
C25_DegenerateNeverRaises ==
    (filtPc # "call" /\ filtRegions # << >> /\ filtData.walls # << >>
        /\ FiltDegenerate) =>
        filtPc = "returned"

\* ---- find_matches ------------------------------------------------------
FmKnown(t) == fmArgs[t].element_type \in templates.keys

\* C26: a find_matches call for an element type that has no loaded template
\* returns the empty list, has not read the image, and no step of any call
\* changes the templates mapping.
C26_UnknownTypeReturnsEmpty ==
    /\ [](\A t \in FmCallers :
            fmPc[t] = "returned" /\ ~FmKnown(t) => fmRet[t] = << >> /\ ~fmRead[t])
    /\ [][templates' = templates]_vars

C26_Witness ==
    \E t \in FmCallers :
        /\ fmPc[t] = "returned" /\ ~FmKnown(t)
        /\ fmArgs[t].image.readable /\ fmArgs[t].image.peaks # {}
        /\ templates.keys # {}

\* What one call returns when it runs alone: the candidates of the scales
\* that fit, in the order of the scales, after non-maximum suppression.
RECURSIVE FmCandidatesFrom(_, _, _)
FmCandidatesFrom(tpl, args, k) ==
    IF k > Len(scales) THEN << >>
    ELSE LET shape == tpl.shape[args.element_type]
             size == <<(shape[2] * scales[k]) \div 4, (shape[1] * scales[k]) \div 4>>
         IN  (IF size[2] > args.image.shape[1] \/ size[1] > args.image.shape[2]
              THEN << >>
              ELSE MatchesAtScale(args.image, size, args.threshold, args.element_type, 0))
                 \o FmCandidatesFrom(tpl, args, k + 1)

FmAlone(tpl, args) ==
    IF args.element_type \notin tpl.keys THEN << >>
    ELSE LET found == FmCandidatesFrom(tpl, args, 1)
             idx == NonMaxSuppressionIdx(found, 3)
         IN  [k \in 1..Len(idx) |-> found[idx[k]]]

\* C27: however the steps of two find_matches calls on one TemplateMatcher
\* interleave, no step modifies the templates mapping and each call that
\* returns, returns the list it returns when it runs alone.
C27_CallsDoNotInterfere ==
    /\ [][templates' = templates]_vars
    /\ [](\A t \in FmCallers :
            fmPc[t] = "returned" => fmRet[t] = FmAlone(templates, fmArgs[t]))

\* Both calls were inside their loops at once and returned different,
\* non-empty lists.
C27_Witness ==
    /\ \A t \in FmCallers : fmPc[t] = "returned" /\ fmRet[t] # << >>
    /\ fmRet[1] # fmRet[2]
    /\ fmArgs[1] # fmArgs[2]

FmScaledSizes(t) ==
    LET shape == templates.shape[fmArgs[t].element_type]
    IN  {<<(shape[2] * scales[k]) \div 4, (shape[1] * scales[k]) \div 4>> :
            k \in 1..Len(scales)}

FmInside(m, img) ==
    /\ m.position[1] >= 0 /\ m.position[2] >= 0
    /\ m.position[1] + m.size[1] <= img.shape[2]
    /\ m.position[2] + m.size[2] <= img.shape[1]

\* C29: a find_matches call with a loaded template runs the iterations of
\* the scales 0.5, 0.75, 1.0, 1.25, 1.5, 2.0 in that order, a scale whose
\* resized template does not fit in the image adds no candidate and the
\* later scales still run, and every returned match has a confidence of at
\* least the threshold, the size of the template at one of the scales
\* truncated to integers, and lies inside the image.
C29_ScalesAndReturnedMatches ==
    \A t \in FmCallers :
        /\ fmPc[t] \in {"loop", "returned"} /\ FmKnown(t) =>
               /\ Len(fmTried[t]) <= 6
               /\ fmTried[t] = [k \in 1..Len(fmTried[t]) |-> <<2, 3, 4, 5, 6, 8>>[k]]
               /\ \A k \in 1..Len(fmMatches[t]) :
                      FmInside(fmMatches[t][k], fmArgs[t].image)
        /\ fmPc[t] = "returned" /\ FmKnown(t) =>
               /\ fmTried[t] = <<2, 3, 4, 5, 6, 8>>
               /\ \A k \in 1..Len(fmRet[t]) :
                      /\ fmRet[t][k].confidence >= fmArgs[t].threshold
                      /\ fmRet[t][k].size \in FmScaledSizes(t)
                      /\ FmInside(fmRet[t][k], fmArgs[t].image)

\* A call returned matches from an image in which the template did not fit at
\* the scales 1.0 and above, and another returned a match whose confidence
\* equals the threshold.
C29_Witness ==
    /\ fmPc[1] = "returned" /\ fmRet[1] # << >>
    /\ fmArgs[1].image.shape = <<1, 2>>
    /\ fmPc[2] = "returned"
    /\ \E k \in 1..Len(fmRet[2]) : fmRet[2][k].confidence = fmArgs[2].threshold

\* ---- process_regions ---------------------------------------------------
PipelineOrder == <<"reconcile", "region filter", "normalise", "extrude">>
StepIndex(step) == CHOOSE k \in 1..Len(PipelineOrder) : PipelineOrder[k] = step
Ran(step) == \E k \in 1..Len(prTrace) : prTrace[k] = step
WallDetectionsStored == "wall" \in prDetections.keys /\ Len(prDetections.wall) > 0

\* The walls left after the reconciler and the region filter, from the data
\* as loaded.
PrAfterReconcile ==
    IF WallDetectionsStored
    THEN MatchDxfWallsToDetections(prLoaded, prDetections).walls
    ELSE prLoaded
PrAfterFilter ==
    IF prRegions # << >>
    THEN DictGet(FilterByRegions([keys |-> {"walls", "doors"}, walls |-> PrAfterReconcile,
                                  doors |-> << >>], prRegions).data, "walls")
    ELSE PrAfterReconcile

\* C30: the steps of process_regions that run, run in the order reconcile,
\* region filter, normalise, extrude; the reconciler runs exactly when the
\* stored wall detections are non-empty; the region filter runs exactly when
\* regions were selected, on the walls the reconciler returned when it ran;
\* and the wall_count of a returned mesh is the number of walls left after
\* those two steps.
C30_PipelineOrder ==
    /\ \A i, j \in 1..Len(prTrace) :
           i < j => StepIndex(prTrace[i]) < StepIndex(prTrace[j])
    /\ Ran("reconcile") => WallDetectionsStored
    /\ prPc \notin {"off", "reconcile"} /\ WallDetectionsStored => Ran("reconcile")
    /\ Ran("region filter") =>
           /\ prRegions # << >>
           /\ DictGet(prFilterIn, "walls")
                  = (IF Ran("reconcile") THEN prReconciled ELSE prLoaded)
    /\ prPc \in {"normalise", "extrude", "returned"} /\ prRegions # << >>
           => Ran("region filter")
    /\ prPc = "returned" =>
           /\ Ran("normalise") /\ Ran("extrude")
           /\ prMesh.metadata.wall_count = Len(PrAfterFilter)
           /\ Len(prMesh.vertices) = 4 * Len(PrAfterFilter)

\* All four steps ran, the reconciler dropped a wall and the region filter
\* dropped another.
C30_Witness ==
    /\ prPc = "returned"
    /\ prTrace = PipelineOrder
    /\ Len(prReconciled) < Len(prLoaded)
    /\ prMesh.metadata.wall_count < Len(prReconciled)

(***************************************************************************)
(* Specifications                                                          *)
(***************************************************************************)
InitNMS == NMSInit /\ IoUIdle /\ ClsIdle /\ ClfIdle /\ MeshIdle /\ RestIdle
NextNMS == NonMaxSuppression /\ UNCHANGED notNmsVars
SpecNMS == InitNMS /\ [][NextNMS]_vars

InitIoU == IoUInit /\ NMSIdle /\ ClsIdle /\ ClfIdle /\ MeshIdle /\ RestIdle
NextIoU == CalculateIoUCall /\ UNCHANGED notIouVars
SpecIoU == InitIoU /\ [][NextIoU]_vars

InitClassify == ClsInit /\ NMSIdle /\ IoUIdle /\ ClfIdle /\ MeshIdle /\ RestIdle
NextClassify == ClassifyContourCall /\ UNCHANGED notClsVars
SpecClassify == InitClassify /\ [][NextClassify]_vars

InitClassifier == ClfInit /\ NMSIdle /\ IoUIdle /\ ClsIdle /\ MeshIdle /\ RestIdle
NextClassifier ==
    \/ \E t \in Callers, name \in ImageNames : ClassifyStart(t, name)
    \/ \E t \in Callers, name \in ImageNames : ClassifyUnreadable(t, name)
    \/ \E t \in Callers : ClassifyStep(t)
    \/ \E t \in Callers : ClassifyReturn(t)
SpecClassifier == InitClassifier /\ [][NextClassifier]_vars

\* The same instance used by one caller at a time: a call starts only when no
\* other call is inside its loop.
NoCallRunning == \A t \in Callers : clfPc[t] # "loop"
NextClassifierSeq ==
    \/ \E t \in Callers, name \in ImageNames : NoCallRunning /\ ClassifyStart(t, name)
    \/ \E t \in Callers, name \in ImageNames : NoCallRunning /\ ClassifyUnreadable(t, name)
    \/ \E t \in Callers : ClassifyStep(t)
    \/ \E t \in Callers : ClassifyReturn(t)
SpecClassifierSeq == InitClassifier /\ [][NextClassifierSeq]_vars

InitMesh == MeshInit /\ NMSIdle /\ IoUIdle /\ ClsIdle /\ ClfIdle /\ RestIdle
NextMesh == Generate \/ GenerateTwin
SpecMesh == InitMesh /\ [][NextMesh]_vars

InitNormalize == NormInit /\ NMSIdle /\ IoUIdle /\ ClsIdle /\ ClfIdle /\ MeshIdle
                    /\ FiltIdle /\ MatchIdle /\ ExtraIdle
NextNormalize == NormalizeCall
SpecNormalize == InitNormalize /\ [][NextNormalize]_vars

\* normalize_coordinates, generate(), filter_by_regions and
\* _non_max_suppression each called once (generate() up to MaxGenerate times)
\* on a list that is empty or holds one element.
SampleWall == [start |-> <<0, 0>>, end |-> <<10, 5>>, layer |-> "WALLS", type |-> "wall"]
SampleMatch == [position |-> <<0, 0>>, size |-> <<1, 1>>, confidence |-> 9]
ShortInputs ==
    /\ matches \in {<< >>, <<SampleMatch>>}
    /\ normWalls \in {<< >>, <<SampleWall>>}
    /\ blueprint_walls \in {<< >>, <<SampleWall>>}
    /\ filtData \in {[keys |-> {"doors"}, walls |-> << >>, doors |-> << >>],
                      [keys |-> {"walls", "doors"}, walls |-> << >>, doors |-> << >>],
                      [keys |-> {"walls", "doors"}, walls |-> <<SampleWall>>, doors |-> << >>]}
    /\ twinThickness = 30
InitShortInputs == ShortInputs /\ NMSInit /\ NormInit /\ MeshInit /\ FiltInit
                      /\ IoUIdle /\ ClsIdle /\ ClfIdle /\ MatchIdle /\ ExtraIdle
NextShortInputs == NextNMS \/ NormalizeCall \/ Generate \/ FilterByRegionsCall
SpecShortInputs == InitShortInputs /\ [][NextShortInputs]_vars

InitFilter == FiltInit /\ NMSIdle /\ IoUIdle /\ ClsIdle /\ ClfIdle /\ MeshIdle
                 /\ NormIdle /\ MatchIdle /\ ExtraIdle
NextFilter == FilterByRegionsCall
SpecFilter == InitFilter /\ [][NextFilter]_vars

InitMatch == MatchInit /\ NMSIdle /\ IoUIdle /\ ClsIdle /\ ClfIdle /\ MeshIdle
                /\ NormIdle /\ FiltIdle /\ ExtraIdle
NextMatch == MatchCall
SpecMatch == InitMatch /\ [][NextMatch]_vars

InitAnalyze == AnaInit /\ NMSIdle /\ IoUIdle /\ ClsIdle /\ ClfIdle /\ MeshIdle
                  /\ NormIdle /\ FiltIdle /\ MatchIdle /\ FmIdle /\ PrIdle
NextAnalyze == AnalyzeRegionElementsCall
SpecAnalyze == InitAnalyze /\ [][NextAnalyze]_vars

InitFindMatches == FmInit /\ NMSIdle /\ IoUIdle /\ ClsIdle /\ ClfIdle /\ MeshIdle
                      /\ NormIdle /\ FiltIdle /\ MatchIdle /\ AnaIdle /\ PrIdle
NextFindMatches ==
    \/ \E t \in FmCallers, image \in Images, element_type \in ElementTypes,
          threshold \in FmThresholds :
           FindMatchesStart(t, image, element_type, threshold)
    \/ \E t \in FmCallers : FindMatchesScale(t)
    \/ \E t \in FmCallers : FindMatchesReturn(t)
SpecFindMatches == InitFindMatches /\ [][NextFindMatches]_vars

InitProcessRegions == PrInit /\ NMSIdle /\ IoUIdle /\ ClsIdle /\ ClfIdle /\ MeshIdle
                         /\ NormIdle /\ FiltIdle /\ MatchIdle /\ AnaIdle /\ FmIdle
NextProcessRegions ==
    \/ ProcessReconcile
    \/ ProcessRegionFilter
    \/ ProcessNormalize
    \/ ProcessExtrude
SpecProcessRegions == InitProcessRegions /\ [][NextProcessRegions]_vars

====
